---- MODULE Spec2Model ----
(***************************************************************************)
(* CDJFormat: the concurrent multi-device format orchestrator, the output  *)
(* translators that turn the erase tool's text into progress, the progress *)
(* bar and the adaptive throughput benchmark.                              *)
(*                                                                         *)
(* Go strings are modelled as sequences of one-character strings, so that  *)
(* prefix/suffix tests, case folding, trimming and decimal conversion are  *)
(* computed the way the code computes them.                                *)
(***************************************************************************)
EXTENDS Integers, Sequences, FiniteSets, TLC

\* ------------------------------------------------------------------ strings

LowerLetters == <<"a", "b", "c", "d", "e", "f", "g", "h", "i", "j", "k", "l", "m", "n", "o", "p", "q", "r", "s", "t", "u", "v", "w", "x", "y", "z">>

UpperLetters == <<"A", "B", "C", "D", "E", "F", "G", "H", "I", "J", "K", "L", "M", "N", "O", "P", "Q", "R", "S", "T", "U", "V", "W", "X", "Y", "Z">>

Digits == <<"0", "1", "2", "3", "4", "5", "6", "7", "8", "9">>

IndexIn(c, alphabet) == CHOOSE i \in 1..Len(alphabet) : alphabet[i] = c

IsIn(c, alphabet) == \E i \in 1..Len(alphabet) : alphabet[i] = c

ToUpperChar(c) == IF IsIn(c, LowerLetters) THEN UpperLetters[IndexIn(c, LowerLetters)] ELSE c

ToLowerChar(c) == IF IsIn(c, UpperLetters) THEN LowerLetters[IndexIn(c, UpperLetters)] ELSE c

ToUpper(s) == IF s = <<>> THEN <<>> ELSE [i \in 1..Len(s) |-> ToUpperChar(s[i])]

ToLower(s) == IF s = <<>> THEN <<>> ELSE [i \in 1..Len(s) |-> ToLowerChar(s[i])]

IsSpace(c) == c \in {" ", "\n", "\t", "\r"}

RECURSIVE TrimLeft(_)
TrimLeft(s) == IF s # <<>> /\ IsSpace(Head(s)) THEN TrimLeft(Tail(s)) ELSE s

RECURSIVE TrimRight(_)
TrimRight(s) == IF s # <<>> /\ IsSpace(s[Len(s)]) THEN TrimRight(SubSeq(s, 1, Len(s) - 1)) ELSE s

TrimSpace(s) == TrimRight(TrimLeft(s))

HasPrefix(s, p) == Len(p) <= Len(s) /\ SubSeq(s, 1, Len(p)) = p

HasSuffix(s, p) == Len(p) <= Len(s) /\ SubSeq(s, Len(s) - Len(p) + 1, Len(s)) = p

TrimSuffix(s, p) == IF HasSuffix(s, p) THEN SubSeq(s, 1, Len(s) - Len(p)) ELSE s

EqualFold(a, b) == ToUpper(a) = ToUpper(b)

Contains(s, p) == \E i \in 1..(Len(s) - Len(p) + 1) : SubSeq(s, i, i + Len(p) - 1) = p

\* strconv.Itoa for the non-negative values the code formats
RECURSIVE Itoa(_)
Itoa(n) == IF n < 10 THEN <<Digits[n + 1]>> ELSE Itoa(n \div 10) \o <<Digits[(n % 10) + 1]>>

\* strconv.Atoi on a run of decimal digits
RECURSIVE Atoi(_)
Atoi(s) == IF s = <<>> THEN 0 ELSE 10 * Atoi(SubSeq(s, 1, Len(s) - 1)) + (IndexIn(s[Len(s)], Digits) - 1)

\* ------------------------------------------------------------------ bounds

\* largest number of devices in one format request
MaxDevices == 2

\* ------------------------------------------------------------------ state

VARIABLES
    \* the machine: platform, attached drives and their volume labels
    goos, present, volLabel,
    \* formatDrive: flags, arguments and the orchestrator's position
    skipConfirm, devices, baseLabel, thresholds, mpc, exitCode, valRejected,
    benchResult, slowPrompt, finalPrompt, ejected,
    \* one task per device: position, label, error returned by formatMac/formatWindows
    tpc, tlabel, terr, ensured, eraseStarts,
    \* the result collector of formatMultipleDrives
    results, closed, wg, printed,
    \* one erase operation's progress bar and output handler
    opc, pbar, last, emitted, skipped, nlines,
    \* runIOMeasure
    bpc, currentSampleTarget, bytesWritten, elapsed, writeDuration, totalRead, readElapsed,
    result, writeBar, readBar, fileExists, openFiles, writeFailure, readOutcome, advisories,
    \* runIntegrityCheck: its locals, the sample file and the medium
    ipc, testSize, corruptAt, vBytesWritten, bytesVerified, iresult, stored, sampleExists,
    handles, writePos, readPos, vWriteBar, verifyBar, shortReads, lateCompares, pieceStart, eofAt,
    \* one progress bar and the calls made on it
    theBar, barPrev, barLast, barWrote, barCalls, barLate,
    \* verifyDrive
    vpc, sizeMB, vidx, failed, vexit, validated, resolved, checkedFiles,
    \* one call of getUniqueLabel
    lpc, labelArg, labelDev, labelOut,
    \* one call of benchmarkSeverity
    spc, sevSpeed, sevThresholds, sevOut,
    \* the profile store, one profile in it, and the commands run on it
    ppc, profStore, profSaved, profSaves, profExit,
    \* one erase subprocess, its two output pipes and their readers
    epc, procState, pend, pipeClosed, rpc, eReadErr, eWaitErr, eraseErr

fmtVars == <<goos, present, volLabel, skipConfirm, devices, baseLabel, thresholds,
             mpc, exitCode, valRejected, benchResult, slowPrompt, finalPrompt,
             ejected, tpc, tlabel, terr, ensured, eraseStarts, results, closed, wg, printed>>

outVars == <<opc, pbar, last, emitted, skipped, nlines>>

benchVars == <<bpc, currentSampleTarget, bytesWritten, elapsed, writeDuration, totalRead,
               readElapsed, result, writeBar, readBar, fileExists, openFiles, writeFailure,
               readOutcome, advisories>>

intVars == <<ipc, testSize, corruptAt, vBytesWritten, bytesVerified, iresult, stored,
             sampleExists, handles, writePos, readPos, vWriteBar, verifyBar, shortReads,
             lateCompares, pieceStart, eofAt>>

barVars == <<theBar, barPrev, barLast, barWrote, barCalls, barLate>>

verifyVars == <<vpc, sizeMB, vidx, failed, vexit, validated, resolved, checkedFiles>>

labelVars == <<lpc, labelArg, labelDev, labelOut>>

sevVars == <<spc, sevSpeed, sevThresholds, sevOut>>

profVars == <<ppc, profStore, profSaved, profSaves, profExit>>

eraseVars == <<epc, procState, pend, pipeClosed, rpc, eReadErr, eWaitErr, eraseErr>>

\* the variables of the single-operation specifications
pureVars == <<labelVars, sevVars, profVars, eraseVars>>

vars == <<fmtVars, outVars, benchVars, intVars, barVars, verifyVars, pureVars>>

notFormat == <<outVars, benchVars, intVars, barVars, verifyVars, pureVars>>

notOutput == <<fmtVars, benchVars, intVars, barVars, verifyVars, pureVars>>

notBench == <<fmtVars, outVars, intVars, barVars, verifyVars, pureVars>>

notIntegrity == <<fmtVars, outVars, benchVars, barVars, verifyVars, pureVars>>

notBar == <<fmtVars, outVars, benchVars, intVars, verifyVars, pureVars>>

notVerify == <<fmtVars, outVars, benchVars, intVars, barVars, pureVars>>

\* ------------------------------------------------------------------ the machine

\* Windows logical disks as wmic reports them: drive letter and DriveType
\* ("2" removable, "3" local fixed disk).  C is a removable-type system volume.
WinWorld ==
    { [id |-> <<"C">>, driveType |-> "2"],
      [id |-> <<"D">>, driveType |-> "3"],
      [id |-> <<"E">>, driveType |-> "2"],
      [id |-> <<"F">>, driveType |-> "2"] }

\* macOS disks as `diskutil info` reports them
MacWorld ==
    { [id |-> <<"d", "i", "s", "k", "0">>, internal |-> TRUE,  systemImage |-> FALSE, removable |-> FALSE],
      [id |-> <<"d", "i", "s", "k", "1">>, internal |-> FALSE, systemImage |-> TRUE,  removable |-> TRUE],
      [id |-> <<"d", "i", "s", "k", "2">>, internal |-> FALSE, systemImage |-> FALSE, removable |-> TRUE],
      [id |-> <<"d", "i", "s", "k", "3">>, internal |-> FALSE, systemImage |-> FALSE, removable |-> TRUE],
      [id |-> <<"d", "i", "s", "k", "4">>, internal |-> FALSE, systemImage |-> FALSE, removable |-> FALSE] }

DriveIds(os) == IF os = "darwin" THEN {w.id : w \in MacWorld} ELSE {w.id : w \in WinWorld}

\* device identifiers an operator may type, well-formed or not
DeviceArgs(os) ==
    IF os = "darwin"
    THEN {w.id : w \in MacWorld} \cup {<<"s", "d", "a">>}
    ELSE {w.id \o <<":">> : w \in WinWorld} \cup {<<"E">>}

\* the drive a device identifier names
DriveOf(os, device) == IF os = "darwin" THEN device ELSE TrimSuffix(device, <<":">>)

validateDevice(device) ==
    IF goos = "darwin"
    THEN IF ~HasPrefix(device, <<"d", "i", "s", "k">>) THEN "invalid" ELSE "nil"
    ELSE IF Len(device) < 2 \/ device[2] # ":" THEN "invalid" ELSE "nil"

\* the DriveType wmic prints for the device, "err" when the query yields none
windowsDriveType(device, attached) ==
    LET driveLetter == TrimSuffix(device, <<":">>) IN
    IF driveLetter = <<>> THEN "err"
    ELSE IF \E w \in WinWorld : w.id = driveLetter /\ w.id \in attached
         THEN (CHOOSE w \in WinWorld : w.id = driveLetter).driveType
         ELSE "err"

isSystemDriveAt(os, device, attached) ==
    IF os = "darwin"
    THEN \E w \in MacWorld : w.id = device /\ w.id \in attached /\ (w.internal \/ w.systemImage)
    ELSE \/ windowsDriveType(device, attached) = "3"
         \/ EqualFold(TrimSuffix(device, <<":">>), <<"C">>)

isRemovableDriveAt(os, device, attached) ==
    IF os = "darwin"
    THEN \E w \in MacWorld : w.id = device /\ w.id \in attached /\ ~w.internal /\ w.removable
    ELSE windowsDriveType(device, attached) = "2"

isSystemDrive(device) == isSystemDriveAt(goos, device, present)

isRemovableDrive(device) == isRemovableDriveAt(goos, device, present)

\* a faulty variant of ensureRemovableDevice: the system-disk test is left out
ensureRemovableDeviceNoSystemCheck(device) ==
    IF ~isRemovableDrive(device) THEN "notRemovable" ELSE "nil"

ensureRemovableDevice(device) ==
    IF isSystemDrive(device) THEN "system"
    ELSE IF ~isRemovableDrive(device) THEN "notRemovable"
    ELSE "nil"

\* ------------------------------------------------------------------ labels

\* upper-cased volume names of the attached logical disks other than excludeDevice;
\* the darwin branch reads the disk list and adds nothing
getExistingLabels(excludeDevice) ==
    IF goos = "darwin" THEN {}
    ELSE { ToUpper(volLabel[d]) : d \in
             { x \in present : /\ volLabel[x] # <<>>
                               /\ ~(excludeDevice # <<>> /\ HasPrefix(excludeDevice, x)) } }

getUniqueLabel(label, device) ==
    LET existingLabels == getExistingLabels(device)
        free == { i \in 2..99 : ToUpper(label \o Itoa(i)) \notin existingLabels }
    IN  IF ToUpper(label) \notin existingLabels THEN label
        ELSE IF free # {} THEN label \o Itoa(CHOOSE i \in free : \A j \in free : i <= j)
        ELSE label

\* the label a task starts from: the first device unsuffixed, the others with idx+1
IndexedLabel(label, idx) == IF idx > 0 THEN label \o Itoa(idx + 1) ELSE label

\* ------------------------------------------------------------------ thresholds

defaultBenchmarkThresholds == [ExtremelySlow |-> 2, VerySlow |-> 3, SlightlySlow |-> 6, Prompt |-> 5]

mergedBenchmarkThresholds(custom) ==
    [ExtremelySlow |-> IF custom.ExtremelySlow > 0 THEN custom.ExtremelySlow
                       ELSE defaultBenchmarkThresholds.ExtremelySlow,
     VerySlow      |-> IF custom.VerySlow > 0 THEN custom.VerySlow
                       ELSE defaultBenchmarkThresholds.VerySlow,
     SlightlySlow  |-> IF custom.SlightlySlow > 0 THEN custom.SlightlySlow
                       ELSE defaultBenchmarkThresholds.SlightlySlow,
     Prompt        |-> IF custom.Prompt > 0 THEN custom.Prompt
                       ELSE defaultBenchmarkThresholds.Prompt]

\* threshold sections a profile may carry (all zero: the profile sets none)
ProfileThresholds ==
    { [ExtremelySlow |-> 0, VerySlow |-> 0, SlightlySlow |-> 0, Prompt |-> 0],
      [ExtremelySlow |-> 0, VerySlow |-> 0, SlightlySlow |-> 0, Prompt |-> 50] }

\* write speeds (MB/s) benchmarkDrive may hand back; 0 is the unmeasured result
BenchOutcomes == {0, 4, 40}

\* formatDrive has not called benchmarkDrive
NoBenchmark == [ran |-> FALSE, WriteMBps |-> 0]

\* ------------------------------------------------------------------ operator input

\* lines the operator may type at a prompt (an empty read is end of input)
Inputs == { <<"y", "\n">>, <<"Y", "\n">>, <<" ", "y", "e", "s", " ", "\n">>, <<"Y", "E", "S", "\n">>, <<"\n">>, <<"n", "\n">>, <<"n", "o", "\n">>, <<>> }

\* a faulty variant of IsYes: an empty answer counts as consent (the default of "(Y/n)")
IsYesOrEmpty(response) == response = <<>> \/ response = <<"y", "e", "s">> \/ response = <<"y">>

\* the test both destructive prompts apply to the trimmed, lower-cased answer
IsYes(response) == response = <<"y", "e", "s">> \/ response = <<"y">>

\* the test the eject prompts apply
IsEjectYes(response) == response = <<>> \/ response = <<"y">> \/ response = <<"y", "e", "s">>

\* what is remembered of a prompt: whether it was shown and whether the answer,
\* trimmed and lower-cased, was y or yes
Unasked == [asked |-> FALSE, consent |-> FALSE]

Answered(response) == [asked |-> TRUE, consent |-> response \in {<<"y">>, <<"y", "e", "s">>}]


notLabel == <<outVars, benchVars, intVars, barVars, verifyVars, sevVars, profVars, eraseVars>>

notSeverity == <<fmtVars, outVars, benchVars, intVars, barVars, verifyVars, labelVars, profVars, eraseVars>>

notProfile == <<outVars, benchVars, intVars, barVars, verifyVars, labelVars, eraseVars>>

notErase == <<fmtVars, outVars, benchVars, intVars, barVars, verifyVars, labelVars, sevVars, profVars>>
\* ------------------------------------------------------------------ formatDrive

Tasks == 1..Len(devices)

SeqsUpTo(S, n) == UNION { [1..k -> S] : k \in 0..n }

\* the VolumeName column wmic prints before the request; the darwin branch of
\* getExistingLabels reads no volume name, so none is followed there
InitialVolumes(os) ==
    LET blank == [d \in DriveIds(os) |-> <<>>] IN
    IF os = "darwin"
    THEN { blank }
    ELSE { blank, [blank EXCEPT ![<<"F">>] = <<"R", "B">>] }

BaseLabels == { <<"r", "b">> }

FormatInit ==
    /\ goos \in {"darwin", "windows"}
    /\ present = DriveIds(goos)
    /\ volLabel \in InitialVolumes(goos)
    /\ skipConfirm \in BOOLEAN
    /\ devices \in SeqsUpTo(DeviceArgs(goos), MaxDevices)
    /\ baseLabel \in BaseLabels
    \* only a single-device request without --yes reads the thresholds
    /\ thresholds \in IF Len(devices) = 1 /\ ~skipConfirm
                      THEN { mergedBenchmarkThresholds(p) : p \in ProfileThresholds }
                      ELSE { defaultBenchmarkThresholds }
    /\ mpc = "validate"
    /\ exitCode = "running"
    /\ valRejected = 0
    /\ benchResult = NoBenchmark
    /\ slowPrompt = Unasked
    /\ finalPrompt = Unasked
    /\ ejected = {}
    /\ tpc = [i \in 1..Len(devices) |-> "idle"]
    /\ tlabel = [i \in 1..Len(devices) |-> <<>>]
    /\ terr = [i \in 1..Len(devices) |-> "nil"]
    /\ ensured = [i \in 1..Len(devices) |-> "none"]
    /\ eraseStarts = [i \in 1..Len(devices) |-> 0]
    /\ results = <<>>
    /\ closed = FALSE
    /\ wg = 0
    /\ printed = <<>>

machineVars == <<goos, present, volLabel>>

flagVars == <<skipConfirm, devices, baseLabel, thresholds>>

promptVars == <<benchResult, slowPrompt, finalPrompt, ejected>>

taskVars == <<tpc, tlabel, terr, ensured, eraseStarts>>

collectorVars == <<results, closed, wg, printed>>

Exit(code) == mpc' = "done" /\ exitCode' = code

\* devices the up-front loop rejects, by position
Rejected == { i \in Tasks : \/ validateDevice(devices[i]) # "nil"
                             \/ ensureRemovableDevice(devices[i]) # "nil" }

AfterValidation ==
    IF ~skipConfirm /\ Len(devices) = 1 THEN "bench"
    ELSE IF ~skipConfirm THEN "confirm"
    ELSE "dispatch"

\* a faulty variant of ValidateDevices: a rejected device is reported and the run goes on
ValidateDevicesKeepGoing ==
    /\ mpc = "validate"
    /\ IF Len(devices) = 0
       THEN Exit("exit1") /\ UNCHANGED valRejected
       ELSE /\ valRejected' = IF Rejected # {} THEN CHOOSE i \in Rejected : \A j \in Rejected : i <= j
                              ELSE 0
            /\ mpc' = AfterValidation
            /\ UNCHANGED exitCode
    /\ UNCHANGED <<notFormat, machineVars, flagVars, promptVars, taskVars, collectorVars>>

\* the empty-argument test and the validation loop: the first device that fails
\* validateDevice or ensureRemovableDevice ends the process with status 1
ValidateDevices ==
    /\ mpc = "validate"
    /\ IF Len(devices) = 0
       THEN Exit("exit1") /\ UNCHANGED valRejected
       ELSE IF Rejected # {}
       THEN /\ valRejected' = CHOOSE i \in Rejected : \A j \in Rejected : i <= j
            /\ Exit("exit1")
       ELSE /\ mpc' = AfterValidation
            /\ UNCHANGED <<exitCode, valRejected>>
    /\ UNCHANGED <<notFormat, machineVars, flagVars, promptVars, taskVars, collectorVars>>

\* single device without --yes: benchmark, then the slow-drive prompt when the
\* write speed is measured and below thresholds.Prompt
Benchmark ==
    /\ mpc = "bench"
    /\ \E speed \in BenchOutcomes :
         /\ benchResult' = [ran |-> TRUE, WriteMBps |-> speed]
         /\ mpc' = IF thresholds.Prompt > 0 /\ speed > 0 /\ speed < thresholds.Prompt
                   THEN "slowPrompt" ELSE "confirm"
    /\ UNCHANGED <<notFormat, machineVars, flagVars, exitCode, valRejected, slowPrompt, finalPrompt,
                   ejected, taskVars, collectorVars>>

SlowPromptAnswer ==
    /\ mpc = "slowPrompt"
    /\ \E input \in Inputs :
         LET response == ToLower(TrimSpace(input)) IN
         /\ slowPrompt' = Answered(response)
         /\ IF ~IsYes(response) THEN Exit("cancelled")
            ELSE mpc' = "confirm" /\ UNCHANGED exitCode
    /\ UNCHANGED <<notFormat, machineVars, flagVars, valRejected, benchResult, finalPrompt,
                   ejected, taskVars, collectorVars>>

ConfirmAnswer ==
    /\ mpc = "confirm"
    /\ \E input \in Inputs :
         LET response == ToLower(TrimSpace(input)) IN
         /\ finalPrompt' = Answered(response)
         /\ IF ~IsYes(response) THEN Exit("cancelled")
            ELSE mpc' = "dispatch" /\ UNCHANGED exitCode
    /\ UNCHANGED <<notFormat, machineVars, flagVars, valRejected, benchResult, slowPrompt,
                   ejected, taskVars, collectorVars>>

\* formatSingleDrive up to the call of formatMac/formatWindows
SingleStart ==
    /\ mpc = "dispatch" /\ Len(devices) = 1
    /\ IF ensureRemovableDevice(devices[1]) # "nil"
       THEN Exit("exit1") /\ UNCHANGED <<tpc, tlabel>>
       ELSE /\ tlabel' = [tlabel EXCEPT ![1] = getUniqueLabel(baseLabel, devices[1])]
            /\ tpc' = [tpc EXCEPT ![1] = "format"]
            /\ mpc' = "singleWait"
            /\ UNCHANGED exitCode
    /\ UNCHANGED <<notFormat, machineVars, flagVars, valRejected, promptVars, terr, ensured,
                   eraseStarts, collectorVars>>

\* formatMultipleDrives: the collector is made with room for every device and one
\* task is started per device (wg.Add(1) before each go statement)
SpawnTasks ==
    /\ mpc = "dispatch" /\ Len(devices) > 1
    /\ wg' = Len(devices)
    /\ tpc' = [i \in Tasks |-> "label"]
    /\ mpc' = "wait"
    /\ UNCHANGED <<notFormat, machineVars, flagVars, exitCode, valRejected, promptVars, tlabel, terr,
                   ensured, eraseStarts, results, closed, printed>>

\* a task's label: index suffix, then the uniqueness pass
TaskLabel(i) ==
    /\ tpc[i] = "label"
    /\ tlabel' = [tlabel EXCEPT ![i] = getUniqueLabel(IndexedLabel(baseLabel, i - 1), devices[i])]
    /\ tpc' = [tpc EXCEPT ![i] = "ensure"]
    /\ UNCHANGED <<notFormat, machineVars, flagVars, mpc, exitCode, valRejected, promptVars, terr,
                   ensured, eraseStarts, collectorVars>>

Outcome(i, status, detail) == [idx |-> i, dev |-> devices[i], status |-> status, detail |-> detail]

\* a faulty variant of Send: the collector has no buffer, so a send waits for a
\* receiver, and the only receiver starts after wg.Wait()
SendUnbuffered(i, status, detail) ==
    /\ Len(results) < 0
    /\ results' = Append(results, Outcome(i, status, detail))
    /\ wg' = wg - 1

\* results <- outcome, then the deferred wg.Done(); the send waits while the
\* collector is full
Send(i, status, detail) ==
    /\ Len(results) < Len(devices)
    /\ results' = Append(results, Outcome(i, status, detail))
    /\ wg' = wg - 1

\* a faulty variant of TaskEnsure: a rejected device's task returns without reporting
TaskEnsureSilent(i) ==
    /\ tpc[i] = "ensure"
    /\ IF ensureRemovableDevice(devices[i]) # "nil"
       THEN /\ wg' = wg - 1
            /\ tpc' = [tpc EXCEPT ![i] = "done"]
            /\ UNCHANGED results
       ELSE /\ tpc' = [tpc EXCEPT ![i] = "format"]
            /\ UNCHANGED <<results, wg>>
    /\ UNCHANGED <<notFormat, machineVars, flagVars, mpc, exitCode, valRejected, promptVars, tlabel,
                   terr, ensured, eraseStarts, closed, printed>>

\* the task's own ensureRemovableDevice: a rejected device is reported FAILED
TaskEnsure(i) ==
    /\ tpc[i] = "ensure"
    /\ IF ensureRemovableDevice(devices[i]) # "nil"
       THEN /\ Send(i, "FAILED", "rejected")
            /\ tpc' = [tpc EXCEPT ![i] = "done"]
       ELSE /\ tpc' = [tpc EXCEPT ![i] = "format"]
            /\ UNCHANGED <<results, wg>>
    /\ UNCHANGED <<notFormat, machineVars, flagVars, mpc, exitCode, valRejected, promptVars, tlabel,
                   terr, ensured, eraseStarts, closed, printed>>

\* what can fail between the check and the running erase subprocess (on darwin
\* the unmount, on both the pipes and Start())
StartFailures == {"start"}

\* formatMac/formatWindows returns err to its caller: a task of
\* formatMultipleDrives reports FAILED or SUCCESS to the collector;
\* formatSingleDrive ends the process on an error and goes on to the eject prompt
\* otherwise
Return(i, err) ==
    /\ terr' = [terr EXCEPT ![i] = err]
    /\ tpc' = [tpc EXCEPT ![i] = "done"]
    /\ IF Len(devices) = 1
       THEN /\ IF err # "nil" THEN Exit("exit1")
               ELSE mpc' = "ejectPrompt" /\ UNCHANGED exitCode
            /\ UNCHANGED <<results, wg>>
       ELSE /\ IF err # "nil" THEN Send(i, "FAILED", err) ELSE Send(i, "SUCCESS", "nil")
            /\ UNCHANGED <<mpc, exitCode>>

\* formatMac/formatWindows up to Start(): ensureRemovableDevice, (unmountDisk,)
\* the pipes, and the erase subprocess started
FormatStart(i) ==
    /\ tpc[i] = "format"
    /\ LET e == ensureRemovableDevice(devices[i]) IN
       /\ ensured' = [ensured EXCEPT ![i] = e]
       /\ IF e # "nil"
          THEN Return(i, "rejected") /\ UNCHANGED eraseStarts
          ELSE \E f \in StartFailures \cup {"nil"} :
               IF f # "nil"
               THEN Return(i, f) /\ UNCHANGED eraseStarts
               ELSE /\ tpc' = [tpc EXCEPT ![i] = "erasing"]
                    /\ eraseStarts' = [eraseStarts EXCEPT ![i] = @ + 1]
                    /\ UNCHANGED <<terr, mpc, exitCode, results, wg>>
    /\ UNCHANGED <<notFormat, machineVars, flagVars, valRejected, promptVars, tlabel, closed, printed>>

\* Wait() and the two output readers: an output error comes first, then the
\* subprocess's exit status; a zero exit leaves the new label on the volume
\* (followed where it is read back, on windows)
FormatWait(i) ==
    /\ tpc[i] = "erasing"
    /\ \E waitErr \in BOOLEAN, readErr \in BOOLEAN :
         /\ Return(i, IF readErr THEN "output" ELSE IF waitErr THEN "failed" ELSE "nil")
         /\ volLabel' = IF goos = "windows" /\ ~waitErr /\ DriveOf(goos, devices[i]) \in present
                        THEN [volLabel EXCEPT ![DriveOf(goos, devices[i])] = tlabel[i]]
                        ELSE volLabel
    /\ UNCHANGED <<notFormat, goos, present, flagVars, valRejected, promptVars,
                   tlabel, ensured, eraseStarts, closed, printed>>

\* a faulty variant of WaitAll: the collector is closed without waiting for the tasks
WaitAllEarly ==
    /\ mpc = "wait"
    /\ closed' = TRUE
    /\ mpc' = "print"
    /\ UNCHANGED <<notFormat, machineVars, flagVars, exitCode, valRejected, promptVars, taskVars,
                   results, wg, printed>>

\* wg.Wait() returns, close(results)
WaitAll ==
    /\ mpc = "wait" /\ wg = 0
    /\ closed' = TRUE
    /\ mpc' = "print"
    /\ UNCHANGED <<notFormat, machineVars, flagVars, exitCode, valRejected, promptVars, taskVars,
                   results, wg, printed>>

\* for result := range results: the closed collector is drained in arrival order
PrintResults ==
    /\ mpc = "print"
    /\ printed' = results
    /\ results' = <<>>
    /\ mpc' = "ejectPrompt"
    /\ UNCHANGED <<notFormat, machineVars, flagVars, exitCode, valRejected, promptVars, taskVars,
                   closed, wg>>

\* the eject prompt of either path: empty, y or yes runs ejectDevice on every
\* device (ejected: the devices it was run on; a failed eject is only printed)
EjectAnswer ==
    /\ mpc = "ejectPrompt"
    /\ \E input \in Inputs :
         LET response == ToLower(TrimSpace(input)) IN
         /\ ejected' = IF IsEjectYes(response) THEN Tasks ELSE {}
    /\ Exit("ok")
    /\ UNCHANGED <<notFormat, machineVars, flagVars, valRejected, benchResult, slowPrompt, finalPrompt,
                   taskVars, collectorVars>>

\* the operator pulls one of the request's drives out while the request runs:
\* at most one drive per request, and before the last check of the drives is
\* over (every task has returned)
Unplug(d) ==
    /\ mpc \notin {"off", "done"}
    /\ \E i \in Tasks : tpc[i] # "done"
    /\ \E i \in Tasks : DriveOf(goos, devices[i]) = d
    /\ present = DriveIds(goos)
    /\ present' = present \ {d}
    /\ UNCHANGED <<notFormat, goos, volLabel, flagVars, mpc, exitCode, valRejected, promptVars,
                   taskVars, collectorVars>>

FormatNext ==
    \/ ValidateDevices
    \/ Benchmark
    \/ SlowPromptAnswer
    \/ ConfirmAnswer
    \/ SingleStart
    \/ SpawnTasks
    \/ \E i \in Tasks : TaskLabel(i)
    \/ \E i \in Tasks : TaskEnsure(i)
    \/ \E i \in Tasks : FormatStart(i)
    \/ \E i \in Tasks : FormatWait(i)
    \/ WaitAll
    \/ PrintResults
    \/ EjectAnswer
    \/ \E d \in DriveIds(goos) : Unplug(d)

FormatIdle ==
    /\ goos = "darwin" /\ present = {} /\ volLabel = <<>>
    /\ skipConfirm = FALSE /\ devices = <<>> /\ baseLabel = <<>>
    /\ thresholds = defaultBenchmarkThresholds
    /\ mpc = "off" /\ exitCode = "running" /\ valRejected = 0 /\ benchResult = NoBenchmark
    /\ slowPrompt = Unasked /\ finalPrompt = Unasked /\ ejected = {}
    /\ tpc = <<>> /\ tlabel = <<>> /\ terr = <<>> /\ ensured = <<>> /\ eraseStarts = <<>>
    /\ results = <<>> /\ closed = FALSE /\ wg = 0 /\ printed = <<>>

\* ------------------------------------------------------------------ ProgressBar

NewProgressBar(label, total) == [label |-> label, total |-> total, current |-> 0, completed |-> FALSE]

NoBar == [label |-> "", total |-> 0, current |-> 0, completed |-> TRUE]

ProgressBarAdd(pb, n) ==
    IF pb.completed THEN pb
    ELSE [pb EXCEPT !.current = IF pb.total > 0 /\ pb.current + n > pb.total
                                 THEN pb.total ELSE pb.current + n]

ProgressBarSet(pb, n) ==
    IF pb.completed THEN pb
    ELSE [pb EXCEPT !.current = IF pb.total > 0
                                 THEN (IF n < 0 THEN 0 ELSE IF n > pb.total THEN pb.total ELSE n)
                                 ELSE n]

\* a faulty variant of ProgressBarFinish: a completed bar is finished again
ProgressBarFinishAlways(pb) ==
    [pb EXCEPT !.current = IF pb.total > 0 /\ pb.current < pb.total THEN pb.total
                           ELSE pb.current,
               !.completed = TRUE]

ProgressBarFinish(pb) ==
    IF pb.completed THEN pb
    ELSE [pb EXCEPT !.current = IF pb.total > 0 /\ pb.current < pb.total THEN pb.total
                                 ELSE pb.current,
                    !.completed = TRUE]

ProgressBarStop(pb) == IF pb.completed THEN pb ELSE [pb EXCEPT !.completed = TRUE]

\* a faulty variant of ProgressBarUpdateTotal: current is left as it was
ProgressBarUpdateTotalKeepsCurrent(pb, total) ==
    IF pb.completed \/ total <= 0 THEN pb ELSE [pb EXCEPT !.total = total]

ProgressBarUpdateTotal(pb, total) ==
    IF pb.completed \/ total <= 0 THEN pb
    ELSE [pb EXCEPT !.total = total, !.current = IF pb.current > total THEN total ELSE pb.current]

\* ------------------------------------------------------------------ output handlers

\* most lines one erase operation hands to its handler
MaxLines == 3

OutputIdle ==
    /\ opc = "off" /\ pbar = NoBar /\ last = 0 /\ emitted = <<>> /\ skipped = FALSE
    /\ nlines = 0

\* progress := NewProgressBar("Format", 100) and a fresh handler (last = 0)
OutputInit ==
    /\ opc = "streaming"
    /\ pbar = NewProgressBar("Format", 100)
    /\ last = 0
    /\ emitted = <<>>
    /\ skipped = FALSE
    /\ nlines = 0

\* the table of macFormatOutputHandler, in its order
steps ==
    << [pattern |-> <<"s", "t", "a", "r", "t", "e", "d", " ", "e", "r", "a", "s", "e">>, progress |-> 5],
       [pattern |-> <<"u", "n", "m", "o", "u", "n", "t", "i", "n", "g">>, progress |-> 15],
       [pattern |-> <<"c", "r", "e", "a", "t", "i", "n", "g", " ", "t", "h", "e", " ", "p", "a", "r", "t", "i", "t", "i", "o", "n", " ", "m", "a", "p">>, progress |-> 35],
       [pattern |-> <<"w", "a", "i", "t", "i", "n", "g", " ", "f", "o", "r", " ", "p", "a", "r", "t", "i", "t", "i", "o", "n", "s">>, progress |-> 55],
       [pattern |-> <<"f", "o", "r", "m", "a", "t", "t", "i", "n", "g">>, progress |-> 75],
       [pattern |-> <<"i", "n", "i", "t", "i", "a", "l", "i", "z", "a", "t", "i", "o", "n", " ", "c", "o", "m", "p", "l", "e", "t", "e">>, progress |-> 90],
       [pattern |-> <<"f", "i", "n", "i", "s", "h", "e", "d">>, progress |-> 100] >>

\* trimmed, non-empty lines of diskutil's output
MacLines ==
    { <<"S", "t", "a", "r", "t", "e", "d", " ", "e", "r", "a", "s", "e", " ", "o", "n", " ", "d", "i", "s", "k", "2">>,
      <<"U", "n", "m", "o", "u", "n", "t", "i", "n", "g", " ", "d", "i", "s", "k">>,
      <<"C", "r", "e", "a", "t", "i", "n", "g", " ", "t", "h", "e", " ", "p", "a", "r", "t", "i", "t", "i", "o", "n", " ", "m", "a", "p">>,
      <<"W", "a", "i", "t", "i", "n", "g", " ", "f", "o", "r", " ", "p", "a", "r", "t", "i", "t", "i", "o", "n", "s", " ", "t", "o", " ", "a", "c", "t", "i", "v", "a", "t", "e">>,
      <<"F", "o", "r", "m", "a", "t", "t", "i", "n", "g", " ", "d", "i", "s", "k", "2", "s", "1", " ", "a", "s", " ", "M", "S", "-", "D", "O", "S", " ", "(", "F", "A", "T", "3", "2", ")">>,
      <<"I", "n", "i", "t", "i", "a", "l", "i", "z", "a", "t", "i", "o", "n", " ", "c", "o", "m", "p", "l", "e", "t", "e">>,
      <<"M", "o", "u", "n", "t", "i", "n", "g", " ", "d", "i", "s", "k">>,
      <<"F", "i", "n", "i", "s", "h", "e", "d", " ", "e", "r", "a", "s", "e", " ", "o", "n", " ", "d", "i", "s", "k", "2">>,
      <<"f", "i", "n", "i", "s", "h", "e", "d", " ", "f", "o", "r", "m", "a", "t", "t", "i", "n", "g">> }

\* index of the first table entry whose pattern the lower-cased line contains, 0 if none
FirstMatch(line) ==
    LET lower == ToLower(line)
        hits == { k \in 1..Len(steps) : Contains(lower, steps[k].pattern) }
    IN  IF hits = {} THEN 0 ELSE CHOOSE k \in hits : \A j \in hits : k <= j

\* a faulty variant of macFormatOutputHandler: the matched percentage is set whatever
\* was emitted before
macFormatOutputHandlerUnguarded(line) ==
    /\ opc = "streaming"
    /\ LET k == FirstMatch(line) IN
       IF k # 0
       THEN /\ pbar' = ProgressBarSet(pbar, steps[k].progress)
            /\ last' = steps[k].progress
            /\ emitted' = Append(emitted, steps[k].progress)
            /\ UNCHANGED skipped
       ELSE UNCHANGED <<pbar, last, emitted, skipped>>
    /\ UNCHANGED <<notOutput, opc, nlines>>

\* the closure macFormatOutputHandler returns, called with one line
macFormatOutputHandler(line) ==
    /\ opc = "streaming"
    /\ LET k == FirstMatch(line) IN
       IF k # 0 /\ steps[k].progress > last
       THEN /\ pbar' = ProgressBarSet(pbar, steps[k].progress)
            /\ last' = steps[k].progress
            /\ emitted' = Append(emitted, steps[k].progress)
            /\ UNCHANGED skipped
       ELSE /\ skipped' = (skipped \/ k # 0)
            /\ UNCHANGED <<pbar, last, emitted>>
    /\ UNCHANGED <<notOutput, opc, nlines>>

\* trimmed, non-empty lines of format.com's output
WinLines ==
    { <<"1", "0", " ", "p", "e", "r", "c", "e", "n", "t", " ", "c", "o", "m", "p", "l", "e", "t", "e", "d", ".">>,
      <<"5", "0", " ", "p", "e", "r", "c", "e", "n", "t", " ", "c", "o", "m", "p", "l", "e", "t", "e", "d", ".">>,
      <<"1", "0", "0", " ", "p", "e", "r", "c", "e", "n", "t", " ", "c", "o", "m", "p", "l", "e", "t", "e", "d", ".">>,
      <<"7", "P", "e", "r", "c", "e", "n", "t">>,
      <<"1", "2", "3", "4", " ", "p", "e", "r", "c", "e", "n", "t">>,
      <<"F", "o", "r", "m", "a", "t", " ", "c", "o", "m", "p", "l", "e", "t", "e", ".">>,
      <<"C", "r", "e", "a", "t", "i", "n", "g", " ", "f", "i", "l", "e", " ", "s", "y", "s", "t", "e", "m", " ", "s", "t", "r", "u", "c", "t", "u", "r", "e", "s", ".">> }

IsDigit(c) == IsIn(c, Digits)

\* length of the run of digits of s that starts at position i
RECURSIVE DigitRun(_, _)
DigitRun(s, i) == IF i <= Len(s) /\ IsDigit(s[i]) THEN 1 + DigitRun(s, i + 1) ELSE 0

\* (?i)(\d{1,3})\s*percent matched with its digits starting at position i
PercentAt(s, i) ==
    LET n == DigitRun(s, i) IN
    /\ n >= 1 /\ n <= 3
    /\ HasPrefix(ToLower(TrimLeft(SubSeq(s, i + n, Len(s)))), <<"p", "e", "r", "c", "e", "n", "t">>)

\* FindStringSubmatch: the digits of the leftmost match, <<>> if there is none
percentRegex(line) ==
    LET at == { i \in 1..Len(line) : PercentAt(line, i) } IN
    IF at = {} THEN <<>>
    ELSE LET i == CHOOSE x \in at : \A y \in at : x <= y
         IN  SubSeq(line, i, i + DigitRun(line, i) - 1)

\* the closure windowsFormatOutputHandler returns, called with one line
windowsFormatOutputHandler(line) ==
    /\ opc = "streaming"
    /\ nlines < MaxLines
    /\ nlines' = nlines + 1
    /\ LET matches == percentRegex(line) IN
       IF matches # <<>>
       THEN LET progress == Atoi(matches) IN
            /\ last' = IF progress > last THEN progress ELSE last
            /\ pbar' = ProgressBarSet(pbar, progress)
            /\ emitted' = Append(emitted, progress)
            /\ UNCHANGED skipped
       ELSE IF Contains(ToLower(line), <<"f", "o", "r", "m", "a", "t", " ", "c", "o", "m", "p", "l", "e", "t", "e">>) /\ last < 100
       THEN /\ last' = 100
            /\ pbar' = ProgressBarSet(pbar, 100)
            /\ emitted' = Append(emitted, 100)
            /\ UNCHANGED skipped
       ELSE UNCHANGED <<pbar, last, emitted, skipped>>
    /\ UNCHANGED <<notOutput, opc>>

\* the erase ended well: progress.Finish(), then the deferred progress.Stop()
OutputFinish ==
    /\ opc = "streaming"
    /\ pbar' = ProgressBarStop(ProgressBarFinish(pbar))
    /\ opc' = "finished"
    /\ UNCHANGED <<notOutput, last, emitted, skipped, nlines>>

\* the erase failed: only the deferred progress.Stop() runs
OutputStop ==
    /\ opc = "streaming"
    /\ pbar' = ProgressBarStop(pbar)
    /\ opc' = "stopped"
    /\ UNCHANGED <<notOutput, last, emitted, skipped, nlines>>

\* ------------------------------------------------------------------ runIOMeasure

mib == 1048576

chunkSize == 4 * mib

\* milliseconds
minSampleDuration == 400

initialSampleSize == 32 * mib

maxSampleSize == 256 * mib

\* the clock: one I/O call takes 0 or TickMs milliseconds, and the elapsed time
\* is followed up to MaxElapsedMs
TickMs == 200

MaxElapsedMs == 800

Ticks == {0, TickMs}

Later(t, d) == IF t + d > MaxElapsedMs THEN MaxElapsedMs ELSE t + d

\* a speed is kept as the bytes moved and the milliseconds taken
\* (MB/s = bytes / 1048576 / (ms / 1000)); the zero value is "unmeasured"
ZeroSpeed == [bytes |-> 0, ms |-> 0]

Positive(speed) == speed.bytes > 0 /\ speed.ms > 0

\* if duration > 0 && bytes > 0 { result.X = float64(bytes) / seconds / MiB }
Measure(bytes, duration) ==
    IF duration > 0 /\ bytes > 0 THEN [bytes |-> bytes, ms |-> duration] ELSE ZeroSpeed

BenchIdle ==
    /\ bpc = "off" /\ currentSampleTarget = 0 /\ bytesWritten = 0 /\ elapsed = 0
    /\ writeDuration = 0 /\ totalRead = 0 /\ readElapsed = 0
    /\ result = [WriteMBps |-> ZeroSpeed, ReadMBps |-> ZeroSpeed]
    /\ writeBar = NoBar /\ readBar = NoBar /\ fileExists = FALSE /\ openFiles = {}
    /\ writeFailure = "none" /\ readOutcome = "none" /\ advisories = {}

\* runIOMeasure is entered: result := BenchmarkResult{}; a stale sample file may exist
BenchInit ==
    /\ bpc = "create" /\ currentSampleTarget = 0 /\ bytesWritten = 0 /\ elapsed = 0
    /\ writeDuration = 0 /\ totalRead = 0 /\ readElapsed = 0
    /\ result = [WriteMBps |-> ZeroSpeed, ReadMBps |-> ZeroSpeed]
    /\ writeBar = NoBar /\ readBar = NoBar /\ fileExists \in BOOLEAN /\ openFiles = {}
    /\ writeFailure = "none" /\ readOutcome = "none" /\ advisories = {}

\* return result, with the handles in `open` still open: the deferred calls run
\* last-in first-out (readBar.Stop, readFile.Close, writeBar.Stop, os.Remove), as
\* far as they were registered.  openFiles keeps the handles that were open when
\* os.Remove ran; a platform may refuse to delete a file that is still open.
BenchReturn(open) ==
    LET atRemove == open \ {"read"} IN
    /\ bpc' = "done"
    /\ openFiles' = atRemove
    /\ fileExists' \in IF atRemove = {} THEN {FALSE} ELSE {FALSE, TRUE}

\* os.Remove(testFile); os.Create(testFile)
BenchCreate ==
    /\ bpc = "create"
    /\ \E ok \in BOOLEAN :
         IF ok
         THEN /\ fileExists' = TRUE
              /\ openFiles' = {"write"}
              /\ currentSampleTarget' = initialSampleSize
              /\ writeBar' = NewProgressBar("Write", initialSampleSize)
              /\ bpc' = "write"
              /\ UNCHANGED writeFailure
         ELSE /\ writeFailure' = "create"
              /\ bpc' = "done"
              /\ fileExists' \in {fileExists, FALSE}
              /\ UNCHANGED <<openFiles, currentSampleTarget, writeBar>>
    /\ UNCHANGED <<notBench, bytesWritten, elapsed, writeDuration, totalRead, readElapsed,
                   result, readBar, readOutcome, advisories>>

\* what file.Write(toWrite) may return: everything written, or fewer bytes with
\* or without an error
WriteOutcomes(toWrite) ==
    { [n |-> toWrite, err |-> FALSE],
      [n |-> toWrite \div 2, err |-> FALSE],
      [n |-> toWrite \div 2, err |-> TRUE],
      [n |-> 0, err |-> TRUE] }

\* a faulty variant of NextTarget: the sample is halved
NextTargetHalved(target) == target \div 2

\* a faulty variant of NextTarget: the sample grows threefold
NextTargetTripled(target) ==
    IF target * 3 > maxSampleSize THEN maxSampleSize ELSE target * 3

\* nextTarget := currentSampleTarget * 2, capped at maxSampleSize
NextTarget(target) ==
    IF target * 2 > maxSampleSize THEN maxSampleSize ELSE target * 2

\* one pass of the write loop
BenchWrite ==
    /\ bpc = "write"
    /\ LET remainingTarget == currentSampleTarget - bytesWritten
           toWrite == IF remainingTarget < chunkSize THEN remainingTarget ELSE chunkSize
       IN
       IF remainingTarget <= 0
       THEN /\ bpc' = "sync"
            /\ UNCHANGED <<bytesWritten, writeBar, elapsed, currentSampleTarget, writeFailure,
                           openFiles, fileExists>>
       ELSE \E w \in WriteOutcomes(toWrite), d \in Ticks :
            LET written == bytesWritten + w.n
                bar == IF w.n > 0 THEN ProgressBarAdd(writeBar, w.n) ELSE writeBar
                now == Later(elapsed, d)
            IN
            /\ bytesWritten' = written
            /\ elapsed' = now
            /\ IF w.err \/ w.n # toWrite
               THEN /\ writeFailure' = IF w.err THEN "write" ELSE "short"
                    /\ writeBar' = ProgressBarStop(bar)
                    /\ BenchReturn(openFiles \ {"write"})
                    /\ UNCHANGED currentSampleTarget
               ELSE IF written >= currentSampleTarget
               THEN IF now >= minSampleDuration \/ currentSampleTarget >= maxSampleSize
                    THEN /\ bpc' = "sync"
                         /\ writeBar' = bar
                         /\ UNCHANGED <<currentSampleTarget, writeFailure, openFiles, fileExists>>
                    ELSE /\ currentSampleTarget' = NextTarget(currentSampleTarget)
                         /\ writeBar' = ProgressBarUpdateTotal(bar, NextTarget(currentSampleTarget))
                         /\ UNCHANGED <<bpc, writeFailure, openFiles, fileExists>>
               ELSE /\ writeBar' = bar
                    /\ UNCHANGED <<bpc, currentSampleTarget, writeFailure, openFiles, fileExists>>
    /\ UNCHANGED <<notBench, writeDuration, totalRead, readElapsed, result, readBar,
                   readOutcome, advisories>>

\* a faulty variant of BenchSync: the write speed is already in the result when the
\* sync fails
BenchSyncKeepsSpeed ==
    /\ bpc = "sync"
    /\ \E ok \in BOOLEAN, d \in Ticks :
         /\ elapsed' = Later(elapsed, d)
         /\ IF ok
            THEN bpc' = "close" /\ UNCHANGED <<writeFailure, writeBar, openFiles, fileExists, result>>
            ELSE /\ writeFailure' = "sync"
                 /\ result' = [result EXCEPT !.WriteMBps = Measure(bytesWritten, Later(elapsed, d))]
                 /\ writeBar' = ProgressBarStop(writeBar)
                 /\ BenchReturn(openFiles \ {"write"})
    /\ UNCHANGED <<notBench, currentSampleTarget, bytesWritten, writeDuration, totalRead,
                   readElapsed, readBar, readOutcome, advisories>>

\* a faulty variant of BenchSync: a failed sync returns without file.Close()
BenchSyncLeavesOpen ==
    /\ bpc = "sync"
    /\ \E ok \in BOOLEAN, d \in Ticks :
         /\ elapsed' = Later(elapsed, d)
         /\ IF ok
            THEN bpc' = "close" /\ UNCHANGED <<writeFailure, writeBar, openFiles, fileExists>>
            ELSE /\ writeFailure' = "sync"
                 /\ writeBar' = ProgressBarStop(writeBar)
                 /\ BenchReturn(openFiles)
    /\ UNCHANGED <<notBench, currentSampleTarget, bytesWritten, writeDuration, totalRead,
                   readElapsed, result, readBar, readOutcome, advisories>>

\* file.Sync(); a failure closes the file and returns
BenchSync ==
    /\ bpc = "sync"
    /\ \E ok \in BOOLEAN, d \in Ticks :
         /\ elapsed' = Later(elapsed, d)
         /\ IF ok
            THEN bpc' = "close" /\ UNCHANGED <<writeFailure, writeBar, openFiles, fileExists>>
            ELSE /\ writeFailure' = "sync"
                 /\ writeBar' = ProgressBarStop(writeBar)
                 /\ BenchReturn(openFiles \ {"write"})
    /\ UNCHANGED <<notBench, currentSampleTarget, bytesWritten, writeDuration, totalRead,
                   readElapsed, result, readBar, readOutcome, advisories>>

\* a faulty variant of BenchClose: a failed close is not looked at
BenchCloseIgnoresError ==
    /\ bpc = "close"
    /\ \E ok \in BOOLEAN, d \in Ticks :
         /\ elapsed' = Later(elapsed, d)
         /\ writeFailure' = IF ok THEN writeFailure ELSE "close"
         /\ writeDuration' = Later(elapsed, d)
         /\ result' = [result EXCEPT !.WriteMBps = Measure(bytesWritten, Later(elapsed, d))]
         /\ writeBar' = ProgressBarFinish(writeBar)
         /\ openFiles' = {}
         /\ bpc' = "open"
         /\ UNCHANGED fileExists
    /\ UNCHANGED <<notBench, currentSampleTarget, bytesWritten, totalRead, readElapsed,
                   readBar, readOutcome, advisories>>

\* file.Close(), then writeDuration, result.WriteMBps and writeBar.Finish()
BenchClose ==
    /\ bpc = "close"
    /\ \E ok \in BOOLEAN, d \in Ticks :
         /\ elapsed' = Later(elapsed, d)
         /\ IF ok
            THEN /\ writeDuration' = Later(elapsed, d)
                 /\ result' = [result EXCEPT !.WriteMBps = Measure(bytesWritten, Later(elapsed, d))]
                 /\ writeBar' = ProgressBarFinish(writeBar)
                 /\ openFiles' = {}
                 /\ bpc' = "open"
                 /\ UNCHANGED <<writeFailure, fileExists>>
            ELSE /\ writeFailure' = "close"
                 /\ writeBar' = ProgressBarStop(writeBar)
                 /\ BenchReturn(openFiles \ {"write"})
                 /\ UNCHANGED <<writeDuration, result>>
    /\ UNCHANGED <<notBench, currentSampleTarget, bytesWritten, totalRead, readElapsed,
                   readBar, readOutcome, advisories>>

\* os.Open(testFile) and the read bar
BenchOpen ==
    /\ bpc = "open"
    /\ \E ok \in BOOLEAN :
         IF ok
         THEN /\ openFiles' = {"read"}
              /\ readBar' = NewProgressBar("Read", bytesWritten)
              /\ readOutcome' = "reading"
              /\ bpc' = "read"
              /\ UNCHANGED fileExists
         ELSE /\ readOutcome' = "openFailed"
              /\ BenchReturn(openFiles)
              /\ UNCHANGED readBar
    /\ UNCHANGED <<notBench, currentSampleTarget, bytesWritten, elapsed, writeDuration,
                   totalRead, readElapsed, result, writeBar, writeFailure, advisories>>

\* what readFile.Read(chunk) may return with `left` bytes of the file unread
ReadOutcomes(left) ==
    IF left = 0
    THEN { [n |-> 0, err |-> "EOF"], [n |-> 0, err |-> "error"] }
    ELSE LET full == IF left < chunkSize THEN left ELSE chunkSize IN
         { [n |-> full, err |-> "nil"],
           [n |-> full \div 2, err |-> "nil"],
           [n |-> full \div 2, err |-> "error"],
           [n |-> 0, err |-> "error"] }

\* a faulty variant of Advisories: a phase of exactly the minimum duration is flagged too
AdvisoriesInclusive(wd, rd) ==
    (IF wd <= minSampleDuration THEN {"write"} ELSE {})
        \cup (IF rd <= minSampleDuration THEN {"read"} ELSE {})

\* the advisories printed after the read phase
Advisories(wd, rd) ==
    (IF wd < minSampleDuration THEN {"write"} ELSE {})
        \cup (IF rd < minSampleDuration THEN {"read"} ELSE {})

\* one pass of the read loop; at end of stream readDuration, result.ReadMBps,
\* readBar.Finish() and the advisories
BenchRead ==
    /\ bpc = "read"
    /\ \E r \in ReadOutcomes(bytesWritten - totalRead), d \in Ticks :
         LET got == totalRead + r.n
             bar == IF r.n > 0 THEN ProgressBarAdd(readBar, r.n) ELSE readBar
             now == Later(readElapsed, d)
         IN
         /\ totalRead' = got
         /\ readElapsed' = now
         /\ IF r.err = "error"
            THEN /\ readOutcome' = "error"
                 /\ readBar' = ProgressBarStop(bar)
                 /\ BenchReturn(openFiles)
                 /\ UNCHANGED <<result, advisories>>
            ELSE IF r.err = "EOF" \/ r.n = 0
            THEN /\ readOutcome' = "eof"
                 /\ result' = [result EXCEPT !.ReadMBps = Measure(got, now)]
                 /\ readBar' = ProgressBarStop(ProgressBarFinish(bar))
                 /\ advisories' = Advisories(writeDuration, now)
                 /\ BenchReturn(openFiles)
            ELSE /\ readBar' = bar
                 /\ UNCHANGED <<bpc, readOutcome, result, advisories, openFiles, fileExists>>
    /\ UNCHANGED <<notBench, currentSampleTarget, bytesWritten, elapsed, writeDuration,
                   writeBar, writeFailure>>

\* ------------------------------------------------------------------ runIntegrityCheck

\* const chunkSize of runIntegrityCheck, in bytes
integrityChunkSize == 1048576

\* most reads of one run that return fewer bytes than are available
MaxShortReads == 2

\* sizes asked for: below, at and above the chunk size, multiples of it or not
TestSizes ==
    { 1, 300, integrityChunkSize, integrityChunkSize + 300, 2 * integrityChunkSize }

\* where the medium may hand back one byte other than the one written (-1: nowhere)
CorruptOffsets(size) ==
    { x \in { 0, 299, integrityChunkSize - 1, integrityChunkSize, size - 1 } : x < size }

\* a faulty variant of fillPattern: the pattern restarts with every buffer
fillPatternPerBuffer(offset, i) == i % 256

\* buf[i] = byte((offset + int64(i)) & 0xFF)
fillPattern(offset, i) == (offset + i) % 256

\* the bytes of the sample file are kept as the extents the writes laid down:
\* extent e holds at file offset f the byte fillPattern(e.pat, f - e.start)
InExtent(e, f) == e.start <= f /\ f < e.start + e.len

StoredByte(f) ==
    LET e == CHOOSE x \in { stored[k] : k \in 1..Len(stored) } : InExtent(x, f)
    IN  fillPattern(e.pat, f - e.start)

\* what the medium returns for offset f
ReadByte(f) == IF f = corruptAt THEN (StoredByte(f) + 1) % 256 ELSE StoredByte(f)

\* bytes.Equal(chunk[:n], expected[:n]) for the n bytes read from file offset pos,
\* expected filled by fillPattern(expected[:n], verified).  Within one extent both
\* sides step by one (mod 256) per byte, so they agree on all of it iff they agree
\* on its first byte in the piece; the altered byte is compared on its own.
SamplePoints(pos, n) ==
    { f \in {pos} \cup { stored[k].start : k \in 1..Len(stored) } \cup {corruptAt} :
        pos <= f /\ f < pos + n }

PieceEqual(pos, n, verified) ==
    \A f \in SamplePoints(pos, n) : ReadByte(f) = fillPattern(verified, f - pos)

\* IntegrityResult{}
NoIntegrityResult ==
    [WriteMBps |-> ZeroSpeed, ReadMBps |-> ZeroSpeed, BytesWritten |-> 0,
     BytesVerified |-> 0, Errors |-> <<>>]

\* func (r IntegrityResult) Success() bool
Success(r) == Len(r.Errors) = 0

\* result.Errors = append(result.Errors, ...): the message's kind and the number in it
ErrorEntry(kind, offset) == [kind |-> kind, offset |-> offset]

IntegrityIdle ==
    /\ ipc = "off" /\ testSize = 0 /\ corruptAt = -1
    /\ vBytesWritten = 0 /\ bytesVerified = 0 /\ iresult = NoIntegrityResult
    /\ stored = <<>> /\ sampleExists = FALSE /\ handles = {}
    /\ writePos = 0 /\ readPos = 0 /\ vWriteBar = NoBar /\ verifyBar = NoBar
    /\ shortReads = 0 /\ lateCompares = 0 /\ pieceStart = -1 /\ eofAt = -1

\* where a medium that does not hold all it accepted ends the file on read-back
EofOffsets(size) == { x \in { 0, 300, integrityChunkSize } : x < size }

\* runIntegrityCheck(testFile, testSize) is entered
IntegrityEntered ==
    /\ ipc = "create" /\ testSize \in TestSizes
    /\ corruptAt \in {-1} \cup CorruptOffsets(testSize)
    /\ vBytesWritten = 0 /\ bytesVerified = 0 /\ iresult = NoIntegrityResult
    /\ stored = <<>> /\ sampleExists \in BOOLEAN /\ handles = {}
    /\ writePos = 0 /\ readPos = 0 /\ vWriteBar = NoBar /\ verifyBar = NoBar
    /\ shortReads = 0 /\ lateCompares = 0 /\ pieceStart = -1

\* ... on a medium that reads back a file as long as what was written to it
IntegrityInit == IntegrityEntered /\ eofAt = -1

\* ... on a medium that may end the file early on read-back (eofAt: the length
\* it reports; -1: all that was written)
IntegrityLossyInit == IntegrityEntered /\ eofAt \in {-1} \cup EofOffsets(testSize)

\* the integrity variables as one record, and a step that sets them from one
IntegrityState ==
    [ipc |-> ipc, vBytesWritten |-> vBytesWritten, bytesVerified |-> bytesVerified,
     iresult |-> iresult, stored |-> stored, sampleExists |-> sampleExists,
     handles |-> handles, writePos |-> writePos, readPos |-> readPos,
     vWriteBar |-> vWriteBar, verifyBar |-> verifyBar, shortReads |-> shortReads,
     lateCompares |-> lateCompares, pieceStart |-> pieceStart]

IntegritySet(s) ==
    /\ ipc' = s.ipc /\ vBytesWritten' = s.vBytesWritten /\ bytesVerified' = s.bytesVerified
    /\ iresult' = s.iresult /\ stored' = s.stored /\ sampleExists' = s.sampleExists
    /\ handles' = s.handles /\ writePos' = s.writePos /\ readPos' = s.readPos
    /\ vWriteBar' = s.vWriteBar /\ verifyBar' = s.verifyBar /\ shortReads' = s.shortReads
    /\ lateCompares' = s.lateCompares /\ pieceStart' = s.pieceStart
    /\ UNCHANGED <<notIntegrity, testSize, corruptAt, eofAt>>

\* return result from state s, with the handles of s still open: the deferred
\* calls run last-in first-out (verifyBar.Stop, readFile.Close, writeBar.Stop,
\* os.Remove).  handles keeps the handles that were open when os.Remove ran; a
\* platform may refuse to delete a file that is still open (kept: TRUE).
IntegrityReturn(s, kept) ==
    LET atRemove == s.handles \ {"read"} IN
    IntegritySet([s EXCEPT !.ipc = "done",
                           !.verifyBar = ProgressBarStop(s.verifyBar),
                           !.vWriteBar = ProgressBarStop(s.vWriteBar),
                           !.handles = atRemove,
                           !.sampleExists = (atRemove # {} /\ kept)])

\* os.Create(testFile) and the write bar; a failure is recorded and returned
\* before any deferred call is registered
IntegrityCreate ==
    /\ ipc = "create"
    /\ \E ok \in BOOLEAN :
         IF ok
         THEN IntegritySet([IntegrityState EXCEPT
                  !.sampleExists = TRUE, !.handles = {"write"}, !.stored = <<>>,
                  !.vWriteBar = NewProgressBar("Write", testSize), !.ipc = "write"])
         ELSE IntegritySet([IntegrityState EXCEPT
                  !.iresult.Errors = Append(@, ErrorEntry("create", 0)), !.ipc = "done"])

\* what file.Write(chunk[:toWrite]) may return
IntegrityWriteOutcomes(toWrite) ==
    { [n |-> toWrite, err |-> FALSE],
      [n |-> toWrite \div 2, err |-> FALSE],
      [n |-> toWrite \div 2, err |-> TRUE],
      [n |-> 0, err |-> TRUE] }

\* one test of `bytesWritten < testSize` and, when it holds, one pass of the
\* write loop
IntegrityWrite ==
    /\ ipc = "write"
    /\ IF ~(vBytesWritten < testSize)
       THEN IntegritySet([IntegrityState EXCEPT !.ipc = "sync"])
       ELSE LET remaining == testSize - vBytesWritten
                toWrite == IF remaining < integrityChunkSize THEN remaining
                           ELSE integrityChunkSize
            IN
            \E w \in IntegrityWriteOutcomes(toWrite), kept \in BOOLEAN :
              LET offset == vBytesWritten
                  s == [IntegrityState EXCEPT
                          !.stored = IF w.n > 0
                                     THEN Append(@, [start |-> writePos, len |-> w.n,
                                                     pat |-> offset])
                                     ELSE @,
                          !.writePos = @ + w.n,
                          !.vWriteBar = IF w.n > 0 THEN ProgressBarAdd(@, w.n) ELSE @,
                          !.vBytesWritten = IF w.n > 0 THEN @ + w.n ELSE @]
                  failedWith(kind) == [s EXCEPT
                          !.iresult.Errors = Append(@, ErrorEntry(kind, offset)),
                          !.handles = @ \ {"write"},
                          !.iresult.BytesWritten = s.vBytesWritten]
              IN  IF w.err THEN IntegrityReturn(failedWith("write"), kept)
                  ELSE IF w.n # toWrite THEN IntegrityReturn(failedWith("short"), kept)
                  ELSE kept /\ IntegritySet(s)

\* a faulty variant of IntegritySync: the failure path forgets result.BytesWritten
IntegritySyncLosesCount ==
    /\ ipc = "sync"
    /\ \E ok \in BOOLEAN, kept \in BOOLEAN :
         IF ok
         THEN kept /\ IntegritySet([IntegrityState EXCEPT !.ipc = "close"])
         ELSE IntegrityReturn([IntegrityState EXCEPT
                  !.iresult.Errors = Append(@, ErrorEntry("sync", 0)),
                  !.handles = @ \ {"write"}], kept)

\* file.Sync(); a failure is recorded, the file closed and the count reported
IntegritySync ==
    /\ ipc = "sync"
    /\ \E ok \in BOOLEAN, kept \in BOOLEAN :
         IF ok
         THEN kept /\ IntegritySet([IntegrityState EXCEPT !.ipc = "close"])
         ELSE IntegrityReturn([IntegrityState EXCEPT
                  !.iresult.Errors = Append(@, ErrorEntry("sync", 0)),
                  !.handles = @ \ {"write"},
                  !.iresult.BytesWritten = vBytesWritten], kept)

\* a faulty variant of IntegrityClose: the write handle is never closed
IntegrityCloseSkipped ==
    /\ ipc = "close"
    /\ \E d \in Ticks :
         IntegritySet([IntegrityState EXCEPT
             !.iresult.WriteMBps = Measure(vBytesWritten, d),
             !.iresult.BytesWritten = vBytesWritten,
             !.vWriteBar = ProgressBarFinish(@),
             !.ipc = "open"])

\* file.Close(), then writeElapsed, result.WriteMBps, result.BytesWritten and
\* writeBar.Finish()
IntegrityClose ==
    /\ ipc = "close"
    /\ \E ok \in BOOLEAN, d \in Ticks, kept \in BOOLEAN :
         IF ok
         THEN kept /\ IntegritySet([IntegrityState EXCEPT
                  !.handles = @ \ {"write"},
                  !.iresult.WriteMBps = Measure(vBytesWritten, d),
                  !.iresult.BytesWritten = vBytesWritten,
                  !.vWriteBar = ProgressBarFinish(@),
                  !.ipc = "open"])
         ELSE d = 0 /\ IntegrityReturn([IntegrityState EXCEPT
                  !.iresult.Errors = Append(@, ErrorEntry("close", 0)),
                  !.handles = @ \ {"write"},
                  !.iresult.BytesWritten = vBytesWritten], kept)

\* os.Open(testFile) and the verify bar
IntegrityOpen ==
    /\ ipc = "open"
    /\ \E ok \in BOOLEAN, kept \in BOOLEAN :
         IF ok
         THEN kept /\ IntegritySet([IntegrityState EXCEPT
                  !.handles = @ \cup {"read"}, !.readPos = 0,
                  !.verifyBar = NewProgressBar("Verify", vBytesWritten),
                  !.ipc = "read"])
         ELSE IntegrityReturn([IntegrityState EXCEPT
                  !.iresult.Errors = Append(@, ErrorEntry("reopen", 0))], kept)

\* the length of the sample file as the read-back sees it
FileEnd == IF eofAt = -1 \/ eofAt > writePos THEN writePos ELSE eofAt

\* what readFile.Read(chunk) may return with `left` bytes of the file unread:
\* all that fits, fewer bytes (MaxShortReads times a run), or an error with or
\* without data
IntegrityReadOutcomes(left) ==
    IF left = 0
    THEN { [n |-> 0, err |-> "EOF"], [n |-> 0, err |-> "error"] }
    ELSE LET full == IF left < integrityChunkSize THEN left ELSE integrityChunkSize IN
         { [n |-> full, err |-> "nil"], [n |-> 0, err |-> "error"] }
             \cup { [n |-> k, err |-> e] : k \in { x \in {1, 300} : x < full },
                                           e \in IF shortReads < MaxShortReads
                                                 THEN {"nil", "error"} ELSE {} }

\* a faulty variant of MismatchOffset: the offset is taken after the piece was counted
MismatchOffsetAfter(verified, n) == verified + n

\* the offset a "data mismatch at offset %d" entry names for a piece of n bytes
MismatchOffset(verified, n) == verified

\* a faulty variant of AfterPiece: the loop goes on after a mismatch
AfterPieceScansOn(mismatch, err) ==
    IF err = "EOF" THEN "break" ELSE IF err # "nil" THEN "readError" ELSE "continue"

\* how one pass of the read loop ends: break at a mismatch and at io.EOF, a read
\* error recorded before the break, or the next pass
AfterPiece(mismatch, err) ==
    IF mismatch THEN "break"
    ELSE IF err = "EOF" THEN "break"
    ELSE IF err # "nil" THEN "readError"
    ELSE "continue"

\* one pass of the read loop; after the loop readElapsed, result.ReadMBps,
\* result.BytesVerified and verifyBar.Finish()
IntegrityRead ==
    /\ ipc = "read"
    /\ \E r \in IntegrityReadOutcomes(FileEnd - readPos), d \in Ticks, kept \in BOOLEAN :
         LET mismatch == r.n > 0 /\ ~PieceEqual(readPos, r.n, bytesVerified)
             verified == bytesVerified + r.n
             how == AfterPiece(mismatch, r.err)
             s == [IntegrityState EXCEPT
                     !.readPos = @ + r.n,
                     !.shortReads = IF r.n > 0 /\ r.n < integrityChunkSize
                                       /\ r.n < FileEnd - readPos
                                    THEN @ + 1 ELSE @,
                     !.lateCompares = IF r.n > 0 /\ iresult.Errors # <<>> THEN @ + 1 ELSE @,
                     !.pieceStart = IF r.n > 0 THEN readPos ELSE @,
                     !.bytesVerified = verified,
                     !.verifyBar = IF r.n > 0 THEN ProgressBarAdd(@, r.n) ELSE @,
                     !.iresult.Errors =
                         LET e1 == IF mismatch
                                   THEN Append(@, ErrorEntry("mismatch",
                                                   MismatchOffset(bytesVerified, r.n)))
                                   ELSE @
                         IN  IF how = "readError"
                             THEN Append(e1, ErrorEntry("read", verified))
                             ELSE e1]
         IN  IF how = "continue"
             THEN d = 0 /\ kept /\ IntegritySet(s)
             ELSE IntegrityReturn([s EXCEPT
                      !.iresult.ReadMBps = Measure(verified, d),
                      !.iresult.BytesVerified = verified,
                      !.verifyBar = ProgressBarFinish(@)], kept)

IntegrityNext ==
    \/ IntegrityCreate
    \/ IntegrityWrite
    \/ IntegritySync
    \/ IntegrityClose
    \/ IntegrityOpen
    \/ IntegrityRead

\* ------------------------------------------------------------------ ProgressBar calls

\* most calls made on one bar
MaxBarCalls == 4

\* totals a bar is made with (0: no total known) and arguments it is called with
BarTotals == {0, 3, 5}

BarArgs == {-2, -1, 0, 1, 2, 4, 7}

\* what render(force) writes on a bar that is not completed: a frame, or nothing
\* when an unforced call comes within 100ms of the last frame
render(force) == IF force THEN {"frame"} ELSE {"frame", "none"}

BarIdle ==
    /\ theBar = NoBar /\ barPrev = NoBar /\ barLast = [op |-> "none", arg |-> 0]
    /\ barWrote = "none" /\ barCalls = 0 /\ barLate = 0

\* pb := NewProgressBar(label, total), which renders the first frame
BarInit ==
    /\ \E total \in BarTotals : theBar = NewProgressBar("Write", total)
    /\ barPrev = NoBar /\ barLast = [op |-> "New", arg |-> theBar.total]
    /\ barWrote = "frame" /\ barCalls = 0 /\ barLate = 0

\* one call on the bar: its new fields and what it wrote; the bar before the
\* call and the call itself are remembered
BarCall(op, arg, after, wrote) ==
    /\ barCalls < MaxBarCalls
    /\ theBar' = after
    /\ barPrev' = theBar
    /\ barLast' = [op |-> op, arg |-> arg]
    /\ barWrote' = wrote
    /\ barCalls' = barCalls + 1
    /\ barLate' = IF theBar.completed THEN barLate + 1 ELSE barLate
    /\ UNCHANGED notBar

BarAdd ==
    \E n \in BarArgs, w \in render(FALSE) :
        BarCall("Add", n, ProgressBarAdd(theBar, n), IF theBar.completed THEN "none" ELSE w)

BarSet ==
    \E n \in BarArgs, w \in render(FALSE) :
        BarCall("Set", n, ProgressBarSet(theBar, n), IF theBar.completed THEN "none" ELSE w)

\* render(true) and a newline
BarFinish ==
    BarCall("Finish", 0, ProgressBarFinish(theBar), IF theBar.completed THEN "none" ELSE "line")

BarStop ==
    BarCall("Stop", 0, ProgressBarStop(theBar), IF theBar.completed THEN "none" ELSE "line")

BarUpdateTotal ==
    \E total \in BarArgs, w \in render(FALSE) :
        BarCall("UpdateTotal", total, ProgressBarUpdateTotal(theBar, total),
                IF theBar.completed \/ total <= 0 THEN "none" ELSE w)

BarNext == BarAdd \/ BarSet \/ BarFinish \/ BarStop \/ BarUpdateTotal

\* ------------------------------------------------------------------ verifyDrive

\* values of --size (megabytes)
SizeArgs == {-1, 0, 1, 64}

VerifyIdle ==
    /\ vpc = "off" /\ sizeMB = 0 /\ vidx = 0 /\ failed = FALSE /\ vexit = "running"
    /\ validated = {} /\ resolved = {} /\ checkedFiles = {}

\* cdjf verify --size sizeMB args...
VerifyInit ==
    /\ goos \in {"darwin", "windows"}
    /\ present = DriveIds(goos)
    /\ volLabel = [d \in DriveIds(goos) |-> <<>>]
    /\ devices \in SeqsUpTo(DeviceArgs(goos), MaxDevices)
    /\ skipConfirm = FALSE /\ baseLabel = <<>>
    /\ thresholds = defaultBenchmarkThresholds
    /\ mpc = "off" /\ exitCode = "running" /\ valRejected = 0 /\ benchResult = NoBenchmark
    /\ slowPrompt = Unasked /\ finalPrompt = Unasked /\ ejected = {}
    /\ tpc = <<>> /\ tlabel = <<>> /\ terr = <<>> /\ ensured = <<>> /\ eraseStarts = <<>>
    /\ results = <<>> /\ closed = FALSE /\ wg = 0 /\ printed = <<>>
    /\ vpc = "size" /\ sizeMB \in SizeArgs /\ vidx = 0 /\ failed = FALSE
    /\ vexit = "running" /\ validated = {} /\ resolved = {} /\ checkedFiles = {}

\* a faulty variant of VerifySize: only a negative size is rejected
VerifySizeAllowsZero ==
    /\ vpc = "size"
    /\ IF sizeMB < 0
       THEN vpc' = "done" /\ vexit' = "exit1" /\ UNCHANGED vidx
       ELSE vpc' = "loop" /\ vidx' = 1 /\ UNCHANGED vexit
    /\ UNCHANGED <<notVerify, sizeMB, failed, validated, resolved, checkedFiles>>

\* sizeMB <= 0 ends the process with status 1; otherwise the loop over args starts
VerifySize ==
    /\ vpc = "size"
    /\ IF sizeMB <= 0
       THEN vpc' = "done" /\ vexit' = "exit1" /\ UNCHANGED vidx
       ELSE vpc' = "loop" /\ vidx' = 1 /\ UNCHANGED vexit
    /\ UNCHANGED <<notVerify, sizeMB, failed, validated, resolved, checkedFiles>>

\* one pass of the loop over args: validateDevice, ensureRemovableDevice,
\* resolveTestFilePath, runIntegrityCheck (followed on its own; here its
\* Success()), the report and the log
VerifyDevice ==
    /\ vpc = "loop" /\ vidx <= Len(devices)
    /\ validated' = validated \cup {vidx}
    /\ vidx' = vidx + 1
    /\ IF validateDevice(devices[vidx]) # "nil" \/ ensureRemovableDevice(devices[vidx]) # "nil"
       THEN failed' = TRUE /\ UNCHANGED <<resolved, checkedFiles>>
       ELSE /\ resolved' = resolved \cup {vidx}
            /\ \E mounted \in BOOLEAN, success \in BOOLEAN :
                 IF ~mounted
                 THEN failed' = TRUE /\ UNCHANGED checkedFiles
                 ELSE /\ checkedFiles' = checkedFiles \cup {vidx}
                      /\ failed' = (failed \/ ~success)
    /\ UNCHANGED <<notVerify, sizeMB, vpc, vexit>>

\* after the loop: status 1 when any device failed
VerifyEnd ==
    /\ vpc = "loop" /\ vidx > Len(devices)
    /\ vpc' = "done"
    /\ vexit' = IF failed THEN "exit1" ELSE "ok"
    /\ UNCHANGED <<notVerify, sizeMB, vidx, failed, validated, resolved, checkedFiles>>

VerifyNext == VerifySize \/ VerifyDevice \/ VerifyEnd

\* ------------------------------------------------------------------ getUniqueLabel calls

\* volume names a disk may carry before the call (<<>>: none)
VolumeNames == { <<>>, <<"R", "B">>, <<"r", "b", "2">> }

\* labels asked for
LabelArgs == { <<"r", "b">>, <<"R", "b">>, <<"u", "s", "b">> }

LabelIdle == lpc = "off" /\ labelArg = <<>> /\ labelDev = <<>> /\ labelOut = <<>>

\* getUniqueLabel(labelArg, labelDev) is about to be called on a machine whose
\* disks carry any of the volume names
LabelInit ==
    /\ goos \in {"darwin", "windows"}
    /\ present = DriveIds(goos)
    /\ volLabel \in [DriveIds(goos) -> VolumeNames]
    /\ skipConfirm = FALSE /\ devices = <<>> /\ baseLabel = <<>>
    /\ thresholds = defaultBenchmarkThresholds
    /\ mpc = "off" /\ exitCode = "running" /\ valRejected = 0 /\ benchResult = NoBenchmark
    /\ slowPrompt = Unasked /\ finalPrompt = Unasked /\ ejected = {}
    /\ tpc = <<>> /\ tlabel = <<>> /\ terr = <<>> /\ ensured = <<>> /\ eraseStarts = <<>>
    /\ results = <<>> /\ closed = FALSE /\ wg = 0 /\ printed = <<>>
    /\ lpc = "call" /\ labelArg \in LabelArgs
    /\ labelDev \in { d \in DeviceArgs(goos) : validateDevice(d) = "nil" }
    /\ labelOut = <<>>

\* label = getUniqueLabel(label, device)
LabelCall ==
    /\ lpc = "call"
    /\ labelOut' = getUniqueLabel(labelArg, labelDev)
    /\ lpc' = "done"
    /\ UNCHANGED <<fmtVars, notLabel, labelArg, labelDev>>

LabelNext == LabelCall
\* ------------------------------------------------------------------ benchmarkSeverity calls

\* speeds (MB/s) and threshold values the function is called with, zero and
\* negative ones included
Speeds == -1..5

ThresholdValues == -1..4

\* a faulty variant of benchmarkSeverity: a speed equal to a threshold counts as below it
benchmarkSeverityInclusive(speed, t) ==
    IF speed <= 0 THEN "unmeasurable"
    ELSE IF t.ExtremelySlow > 0 /\ speed <= t.ExtremelySlow THEN "extremelySlow"
    ELSE IF t.VerySlow > 0 /\ speed <= t.VerySlow THEN "verySlow"
    ELSE IF t.SlightlySlow > 0 /\ speed <= t.SlightlySlow THEN "slightlySlow"
    ELSE "ok"

\* the switch of benchmarkSeverity; each message is named by its severity
benchmarkSeverity(speed, t) ==
    IF speed <= 0 THEN "unmeasurable"
    ELSE IF t.ExtremelySlow > 0 /\ speed < t.ExtremelySlow THEN "extremelySlow"
    ELSE IF t.VerySlow > 0 /\ speed < t.VerySlow THEN "verySlow"
    ELSE IF t.SlightlySlow > 0 /\ speed < t.SlightlySlow THEN "slightlySlow"
    ELSE "ok"

SeverityIdle ==
    /\ spc = "off" /\ sevSpeed = 0 /\ sevThresholds = defaultBenchmarkThresholds
    /\ sevOut = "none"

\* benchmarkSeverity(sevSpeed, sevThresholds) is about to be called
SeverityInit ==
    /\ spc = "call" /\ sevSpeed \in Speeds
    /\ sevThresholds \in [ExtremelySlow : ThresholdValues, VerySlow : ThresholdValues,
                          SlightlySlow : ThresholdValues,
                          Prompt : {defaultBenchmarkThresholds.Prompt}]
    /\ sevOut = "none"

SeverityCall ==
    /\ spc = "call"
    /\ sevOut' = benchmarkSeverity(sevSpeed, sevThresholds)
    /\ spc' = "done"
    /\ UNCHANGED <<notSeverity, sevSpeed, sevThresholds>>

SeverityNext == SeverityCall
\* ------------------------------------------------------------------ profiles

\* most profile save commands followed
MaxSaves == 2

\* if t.ExtremelySlow <= 0 || ... : the error validateBenchmarkThresholds returns
validateBenchmarkThresholds(t) ==
    IF t.ExtremelySlow <= 0 \/ t.VerySlow <= 0 \/ t.SlightlySlow <= 0 THEN "notPositive"
    ELSE IF t.ExtremelySlow > t.VerySlow THEN "extremelyAboveVery"
    ELSE IF t.VerySlow > t.SlightlySlow THEN "veryAboveSlightly"
    ELSE IF t.Prompt <= 0 THEN "promptNotPositive"
    ELSE "nil"

\* profile.BenchmarkThresholds: nil, or a set of thresholds
NilThresholds ==
    [present |-> FALSE,
     t |-> [ExtremelySlow |-> 0, VerySlow |-> 0, SlightlySlow |-> 0, Prompt |-> 0]]

\* the benchmark_thresholds a profiles.json may hold for the profile before any
\* command: none, or any values (a field left out reads as 0)
StoredThresholds ==
    { NilThresholds } \cup
    { [present |-> TRUE, t |-> t] :
        t \in [ExtremelySlow : 0..3, VerySlow : 0..3, SlightlySlow : {0, 3}, Prompt : {0}] }

\* a threshold flag of profile save: not given, or given with a value
FlagValues ==
    { [changed |-> FALSE, value |-> 0] } \cup { [changed |-> TRUE, value |-> v] : v \in {0, 1, 3} }

SaveFlags ==
    [label : BOOLEAN, reset : BOOLEAN, ext : FlagValues, very : FlagValues,
     slight : FlagValues, prompt : { f \in FlagValues : f.value # 1 }]

\* nothing written by profile save yet
NothingSaved == [written |-> FALSE, thresholdChanged |-> FALSE, stored |-> NilThresholds]

ProfileIdle ==
    /\ ppc = "off" /\ profStore = NilThresholds /\ profSaved = NothingSaved
    /\ profSaves = 0 /\ profExit = "running"

ProfileInit ==
    /\ FormatIdle /\ SeverityIdle
    /\ ppc = "ready" /\ profStore \in StoredThresholds /\ profSaved = NothingSaved
    /\ profSaves = 0 /\ profExit = "running"

\* what profileSave does with the flags f: the exit status, and what is stored
\* when it gets as far as saveProfileStore
profileSave(f) ==
    LET thresholdFlag == f.ext.changed \/ f.very.changed \/ f.slight.changed \/ f.prompt.changed
        merged == mergedBenchmarkThresholds(profStore.t)
        given == [ExtremelySlow |-> IF f.ext.changed THEN f.ext.value ELSE merged.ExtremelySlow,
                  VerySlow      |-> IF f.very.changed THEN f.very.value ELSE merged.VerySlow,
                  SlightlySlow  |-> IF f.slight.changed THEN f.slight.value
                                    ELSE merged.SlightlySlow,
                  Prompt        |-> IF f.prompt.changed THEN f.prompt.value ELSE merged.Prompt]
        fail == [exit |-> "exit1", write |-> FALSE, thresholdChanged |-> FALSE,
                 store |-> profStore]
        keep(changed) == [exit |-> "ok", write |-> changed, thresholdChanged |-> FALSE,
                          store |-> profStore]
    IN  IF ~f.label /\ ~thresholdFlag /\ ~f.reset THEN fail
        ELSE IF f.reset
        THEN IF thresholdFlag THEN fail
             ELSE IF profStore.present
                  THEN [exit |-> "ok", write |-> TRUE, thresholdChanged |-> FALSE,
                        store |-> NilThresholds]
                  ELSE keep(f.label)
        ELSE IF \E g \in {f.ext, f.very, f.slight, f.prompt} : g.changed /\ g.value <= 0
        THEN fail
        ELSE IF thresholdFlag
        THEN IF validateBenchmarkThresholds(given) # "nil" THEN fail
             ELSE [exit |-> "ok", write |-> TRUE, thresholdChanged |-> TRUE,
                   store |-> [present |-> TRUE, t |-> given]]
        ELSE keep(f.label)

\* cdjf profile save <name> with some flags
ProfileSave ==
    /\ ppc = "ready" /\ profSaves < MaxSaves
    /\ \E f \in SaveFlags :
         LET r == profileSave(f) IN
         /\ profExit' = r.exit
         /\ profStore' = IF r.write THEN r.store ELSE profStore
         /\ profSaved' = IF r.write
                         THEN [written |-> TRUE, thresholdChanged |-> r.thresholdChanged,
                               stored |-> r.store]
                         ELSE profSaved
    /\ profSaves' = profSaves + 1
    /\ UNCHANGED <<fmtVars, notProfile, sevVars, ppc>>

\* cdjf format --profile <name> <device>: the profile's thresholds are merged
\* over the defaults, and the benchmark's write speed is classified with them
ProfileFormat ==
    /\ ppc = "ready"
    /\ LET merged == IF profStore.present THEN mergedBenchmarkThresholds(profStore.t)
                     ELSE defaultBenchmarkThresholds
       IN  /\ thresholds' = merged
           /\ \E speed \in Speeds :
                /\ sevSpeed' = speed
                /\ sevOut' = benchmarkSeverity(speed, merged)
           /\ sevThresholds' = merged
    /\ spc' = "done" /\ ppc' = "formatted" /\ profExit' = "ok"
    /\ UNCHANGED <<goos, present, volLabel, skipConfirm, devices, baseLabel, mpc, exitCode,
                   valRejected, benchResult, slowPrompt, finalPrompt, ejected, tpc, tlabel,
                   terr, ensured, eraseStarts, results, closed, wg, printed>>
    /\ UNCHANGED <<notProfile, profStore, profSaved, profSaves>>

ProfileNext == ProfileSave \/ ProfileFormat
\* ------------------------------------------------------------------ the erase subprocess

\* the subprocess's output pipes, each read by one goroutine of
\* formatMac/formatWindows through streamCommandOutput
Pipes == {"stdout", "stderr"}

\* most lines written to a pipe and not yet read
MaxPending == 2

EraseIdle ==
    /\ epc = "off" /\ procState = "off" /\ pend = [p \in Pipes |-> 0] /\ pipeClosed = FALSE
    /\ rpc = [p \in Pipes |-> "off"] /\ eReadErr = "nil" /\ eWaitErr = FALSE /\ eraseErr = "none"

\* Start() returned nil: the subprocess runs, both readers are started, and the
\* caller is about to call Wait()
EraseInit ==
    /\ epc = "wait" /\ procState = "running" /\ pend = [p \in Pipes |-> 0]
    /\ pipeClosed = FALSE /\ rpc = [p \in Pipes |-> "reading"] /\ eReadErr = "nil"
    /\ eWaitErr = FALSE /\ eraseErr = "none"

\* the subprocess prints a line
ProcWrite(p) ==
    /\ procState = "running" /\ pend[p] < MaxPending
    /\ pend' = [pend EXCEPT ![p] = @ + 1]
    /\ UNCHANGED <<notErase, epc, procState, pipeClosed, rpc, eReadErr, eWaitErr, eraseErr>>

\* the subprocess exits, with status zero or not; its ends of the pipes close
ProcExit ==
    /\ procState = "running"
    /\ procState' \in {"exit0", "exit1"}
    /\ UNCHANGED <<notErase, epc, pend, pipeClosed, rpc, eReadErr, eWaitErr, eraseErr>>

\* captureErr(e): the first error of either reader is kept in readErr (eReadErr)
captureErr(e) == IF eReadErr = "nil" THEN e ELSE eReadErr

\* streamCommandOutput on pipe p, one read at a time: a line is handed to the
\* handler; io.EOF, once the subprocess has exited and the pipe is drained, ends
\* it with nil; any other error ends it with that error.  A read on a pipe that
\* Wait() has closed fails with "file already closed".
ReaderStep(p) ==
    /\ rpc[p] = "reading"
    /\ IF pipeClosed
       THEN /\ eReadErr' = captureErr("closed")
            /\ rpc' = [rpc EXCEPT ![p] = "done"]
            /\ UNCHANGED pend
       ELSE \/ /\ pend[p] > 0
               /\ pend' = [pend EXCEPT ![p] = @ - 1]
               /\ UNCHANGED <<rpc, eReadErr>>
            \/ /\ pend[p] = 0 /\ procState # "running"
               /\ rpc' = [rpc EXCEPT ![p] = "done"]
               /\ UNCHANGED <<pend, eReadErr>>
            \/ /\ eReadErr' = captureErr("io")
               /\ rpc' = [rpc EXCEPT ![p] = "done"]
               /\ UNCHANGED pend
    /\ UNCHANGED <<notErase, epc, procState, pipeClosed, eWaitErr, eraseErr>>

\* eWaitErr := cmd.Wait(): returns once the subprocess has exited, and closes the
\* caller's ends of both pipes whether or not the readers have finished
CmdWait ==
    /\ epc = "wait" /\ procState # "running"
    /\ eWaitErr' = (procState = "exit1")
    /\ pipeClosed' = TRUE
    /\ epc' = "join"
    /\ UNCHANGED <<notErase, procState, pend, rpc, eReadErr, eraseErr>>

\* wg.Wait() and the return value: an output error first, then the exit status
EraseReturn ==
    /\ epc = "join" /\ \A p \in Pipes : rpc[p] = "done"
    /\ eraseErr' = IF eReadErr # "nil" THEN "output" ELSE IF eWaitErr THEN "failed" ELSE "nil"
    /\ epc' = "done"
    /\ UNCHANGED <<notErase, procState, pend, pipeClosed, rpc, eReadErr, eWaitErr>>

EraseNext ==
    \/ \E p \in Pipes : ProcWrite(p)
    \/ ProcExit
    \/ \E p \in Pipes : ReaderStep(p)
    \/ CmdWait
    \/ EraseReturn
\* ------------------------------------------------------------------ specifications

\* no single-operation specification is running
PureIdle == LabelIdle /\ SeverityIdle /\ ProfileIdle /\ EraseIdle

\* a format request, single- or multi-device
Init == PureIdle /\ FormatInit /\ OutputIdle /\ BenchIdle /\ IntegrityIdle /\ BarIdle /\ VerifyIdle

Next == FormatNext

Spec == Init /\ [][Next]_vars

\* a step of one of the goroutines formatMultipleDrives started (or of the
\* single-device path's call of formatMac/formatWindows)
TaskStep == \E i \in Tasks : TaskLabel(i) \/ TaskEnsure(i) \/ FormatStart(i) \/ FormatWait(i)

\* the same request where every goroutine that can run does run, every erase
\* subprocess exits (FormatWait), and wg.Wait() returns once its counter is zero
SpecLive == Init /\ [][Next]_vars /\ WF_vars(TaskStep) /\ WF_vars(WaitAll)

MacOutputNext ==
    \/ \E line \in MacLines : macFormatOutputHandler(line)
    \/ OutputFinish
    \/ OutputStop

\* the output of one diskutil erase, line by line
MacOutputInit == PureIdle /\ FormatIdle /\ BenchIdle /\ IntegrityIdle /\ BarIdle /\ VerifyIdle /\ OutputInit

SpecMacOutput == MacOutputInit /\ [][MacOutputNext]_vars

WinOutputNext ==
    \/ \E line \in WinLines : windowsFormatOutputHandler(line)
    \/ OutputFinish
    \/ OutputStop

\* the output of one format.com run, line by line
WinOutputInit == PureIdle /\ FormatIdle /\ BenchIdle /\ IntegrityIdle /\ BarIdle /\ VerifyIdle /\ OutputInit

SpecWinOutput == WinOutputInit /\ [][WinOutputNext]_vars

BenchNext ==
    \/ BenchCreate
    \/ BenchWrite
    \/ BenchSync
    \/ BenchClose
    \/ BenchOpen
    \/ BenchRead

\* one call of runIOMeasure
BenchStart == PureIdle /\ FormatIdle /\ OutputIdle /\ IntegrityIdle /\ BarIdle /\ VerifyIdle /\ BenchInit

SpecBench == BenchStart /\ [][BenchNext]_vars

\* one call of runIOMeasure in which every I/O call returns: the function's
\* statements run one after the other, so a step that can be taken is taken
SpecBenchLive == BenchStart /\ [][BenchNext]_vars /\ WF_vars(BenchNext)


\* one call of runIntegrityCheck
IntegrityStart == PureIdle /\ FormatIdle /\ OutputIdle /\ BenchIdle /\ BarIdle /\ VerifyIdle /\ IntegrityInit

SpecIntegrity == IntegrityStart /\ [][IntegrityNext]_vars

\* one call of runIntegrityCheck on a medium that may lose the end of the file
IntegrityLossyStart ==
    PureIdle /\ FormatIdle /\ OutputIdle /\ BenchIdle /\ BarIdle /\ VerifyIdle /\ IntegrityLossyInit

SpecIntegrityLossy == IntegrityLossyStart /\ [][IntegrityNext]_vars

\* one sample file, written and read back by runIOMeasure or by runIntegrityCheck
SampleFileNext == BenchNext \/ IntegrityNext

SampleFileInit ==
    /\ FormatIdle /\ OutputIdle /\ BarIdle /\ VerifyIdle /\ PureIdle
    /\ \/ BenchInit /\ IntegrityIdle
       \/ BenchIdle /\ IntegrityInit

SpecSampleFile == SampleFileInit /\ [][SampleFileNext]_vars

\* one progress bar and a sequence of calls on it
BarStart == PureIdle /\ FormatIdle /\ OutputIdle /\ BenchIdle /\ IntegrityIdle /\ VerifyIdle /\ BarInit

SpecBar == BarStart /\ [][BarNext]_vars

\* one cdjf verify command
VerifyStart == PureIdle /\ OutputIdle /\ BenchIdle /\ IntegrityIdle /\ BarIdle /\ VerifyInit

SpecVerify == VerifyStart /\ [][VerifyNext]_vars

\* one call of getUniqueLabel
LabelStart ==
    /\ OutputIdle /\ BenchIdle /\ IntegrityIdle /\ BarIdle /\ VerifyIdle /\ SeverityIdle
    /\ ProfileIdle /\ EraseIdle /\ LabelInit

SpecLabel == LabelStart /\ [][LabelNext]_vars

\* one call of benchmarkSeverity
SeverityStart ==
    /\ FormatIdle /\ OutputIdle /\ BenchIdle /\ IntegrityIdle /\ BarIdle /\ VerifyIdle
    /\ LabelIdle /\ ProfileIdle /\ EraseIdle /\ SeverityInit

SpecSeverity == SeverityStart /\ [][SeverityNext]_vars

\* profile save commands and a format run with --profile
ProfileStart ==
    /\ OutputIdle /\ BenchIdle /\ IntegrityIdle /\ BarIdle /\ VerifyIdle /\ LabelIdle
    /\ EraseIdle /\ ProfileInit

SpecProfile == ProfileStart /\ [][ProfileNext]_vars

\* formatMac/formatWindows from Start() to its return
EraseStart ==
    /\ FormatIdle /\ OutputIdle /\ BenchIdle /\ IntegrityIdle /\ BarIdle /\ VerifyIdle
    /\ LabelIdle /\ SeverityIdle /\ ProfileIdle /\ EraseInit

SpecErase == EraseStart /\ [][EraseNext]_vars
\* ------------------------------------------------------------------ properties

\* q holds one SUCCESS or FAILED outcome for every position of the request
OneOutcomeEach(q) ==
    /\ Len(q) = Len(devices)
    /\ \A i \in Tasks : Cardinality({k \in 1..Len(q) : q[k].idx = i}) = 1
    /\ \A k \in 1..Len(q) : q[k].status \in {"SUCCESS", "FAILED"} /\ q[k].dev = devices[q[k].idx]

\* C1: formatMultipleDrives runs one task per device, and when the collector is
\* read (closed, then ranged over) it holds exactly one SUCCESS or FAILED outcome
\* for each input device, none missing and none duplicated; what is printed is
\* exactly that.
C1_OneOutcomePerDevice ==
    /\ mpc \in {"wait", "print"} => \A i \in Tasks : tpc[i] # "idle"
    /\ \A i \in Tasks : Cardinality({k \in 1..Len(results) : results[k].idx = i}) <= 1
    /\ (closed /\ mpc = "print") => OneOutcomeEach(results)
    /\ (closed /\ mpc \in {"ejectPrompt", "done"}) => OneOutcomeEach(printed)

\* two devices, one reported FAILED and one SUCCESS, as the collector is read
C1_Witness ==
    /\ closed /\ mpc = "print" /\ Len(devices) >= 2
    /\ \E k \in 1..Len(results) : results[k].status = "FAILED"
    /\ \E k \in 1..Len(results) : results[k].status = "SUCCESS"

Labelled(i) == Len(devices) >= 2 /\ tpc[i] \notin {"idle", "label"}

\* C2: after the index suffix and the uniqueness pass, the labels given to the
\* (distinct) devices of a multi-device request are pairwise distinct.
C2_LabelsPairwiseDistinct ==
    \A i, j \in Tasks :
        (i # j /\ devices[i] # devices[j] /\ Labelled(i) /\ Labelled(j)) => tlabel[i] # tlabel[j]

\* C3: an erase subprocess was started for a device only after
\* ensureRemovableDevice returned no error for it inside formatMac/formatWindows,
\* and never for a drive that is a system disk or is not removable.
C3_EraseOnlyAfterEnsure ==
    \A i \in Tasks :
        eraseStarts[i] > 0 =>
            /\ ensured[i] = "nil"
            /\ ~isSystemDriveAt(goos, devices[i], DriveIds(goos))
            /\ isRemovableDriveAt(goos, devices[i], DriveIds(goos))

\* a multi-device request with one device erasing while a sibling was rejected
C3_Witness ==
    /\ Len(devices) >= 2
    /\ \E i \in Tasks : tpc[i] = "erasing"
    /\ \E k \in 1..Len(results) : results[k].detail = "rejected"

Refused(prompt) == prompt.asked /\ ~prompt.consent

\* C4: without --yes no erase is started unless the final confirmation was
\* answered y or yes, and the slow-drive prompt too when it was shown; any other
\* answer to either prompt ends the run with no task started and nothing erased.
C4_ConfirmedBeforeErase ==
    ~skipConfirm =>
        /\ (\E i \in Tasks : tpc[i] # "idle" \/ eraseStarts[i] > 0) =>
               /\ finalPrompt.asked /\ finalPrompt.consent
               /\ slowPrompt.asked => slowPrompt.consent
        /\ (Refused(finalPrompt) \/ Refused(slowPrompt)) =>
               /\ mpc = "done" /\ exitCode = "cancelled"
               /\ \A i \in Tasks : tpc[i] = "idle" /\ eraseStarts[i] = 0

\* the slow-drive prompt was shown and the device is being erased
C4_Witness ==
    /\ ~skipConfirm /\ slowPrompt.asked
    /\ \E i \in Tasks : tpc[i] = "erasing"

\* C5: the percentages macFormatOutputHandler passes to the progress bar are
\* strictly increasing whatever lines arrive and in whatever order; the handler's
\* last is the latest of them and the bar shows it.
C5_EmittedStrictlyIncreasing ==
    /\ \A k \in 1..(Len(emitted) - 1) : emitted[k] < emitted[k + 1]
    /\ last = IF emitted = <<>> THEN 0 ELSE emitted[Len(emitted)]
    /\ opc = "streaming" => pbar.current = last

\* several percentages were emitted and a matching line was passed over
C5_Witness == skipped /\ Len(emitted) >= 3 /\ opc = "streaming"

\* C6: the value windowsFormatOutputHandler sets on the progress bar never goes
\* down during one operation.
C6_ProgressNeverLowered == [][pbar'.current >= pbar.current]_vars

\* an entry of printed for position j, rejected or not as j's own checks went
OwnOutcome(j) ==
    \E k \in 1..Len(printed) :
        /\ printed[k].idx = j
        /\ IF printed[k].detail = "rejected"
           THEN ensured[j] # "nil" /\ eraseStarts[j] = 0
           ELSE ensured[j] = "nil" /\ (eraseStarts[j] = 1 \/ printed[k].detail = "start")

\* C7 (as claimed): in a multi-device request a rejected device fails alone; every
\* other device, itself acceptable, still gets its own outcome.
C7_RejectionFailsOnlyThatDevice ==
    (mpc = "done" /\ Len(devices) >= 2 /\ valRejected # 0) =>
        \A j \in Tasks :
            (j # valRejected /\ validateDevice(devices[j]) = "nil"
                             /\ ensureRemovableDevice(devices[j]) = "nil")
                => \E k \in 1..Len(printed) : printed[k].idx = j

\* C7 (amended): a device rejected by the up-front validation loop ends the whole
\* request with status 1 before any task is started, nothing erased and nothing
\* reported; a device rejected only by its own task fails alone, every position
\* getting the outcome of its own check and erase attempt.
C7_RejectionUpFrontAbortsElseAlone ==
    /\ valRejected # 0 =>
          /\ mpc = "done" /\ exitCode = "exit1"
          /\ \A i \in Tasks : tpc[i] = "idle" /\ eraseStarts[i] = 0
          /\ results = <<>> /\ printed = <<>>
    /\ (Len(devices) >= 2 /\ closed /\ mpc \in {"ejectPrompt", "done"}) =>
          \A j \in Tasks : OwnOutcome(j)

\* a task-level rejection printed next to a sibling's SUCCESS
C7_Witness ==
    /\ Len(devices) >= 2 /\ mpc = "ejectPrompt"
    /\ \E k \in 1..Len(printed) : printed[k].detail = "rejected"
    /\ \E k \in 1..Len(printed) : printed[k].status = "SUCCESS"

\* C8: once the sample file exists the sample target is 32 MiB times a power of
\* two, at least 32 MiB and at most 256 MiB, i.e. 32, 64, 128 or 256 MiB.
C8_SampleTargetInRange ==
    (bpc \notin {"off", "create"} /\ writeFailure # "create") =>
        /\ \E k \in 0..3 : currentSampleTarget = initialSampleSize * 2^k
        /\ currentSampleTarget >= initialSampleSize
        /\ currentSampleTarget <= maxSampleSize
        /\ currentSampleTarget \in {32 * mib, 64 * mib, 128 * mib, 256 * mib}

\* the write loop is running with the sample extended to the ceiling
C8_Witness == bpc = "write" /\ currentSampleTarget = maxSampleSize /\ bytesWritten > 128 * mib

\* the write phase went through: every write, the sync and the close succeeded
WriteCompleted == writeFailure = "none" /\ bpc \in {"open", "read", "done"}

\* C9: in the result, writeMBps is positive exactly when the write phase completed
\* with elapsed > 0 and bytes > 0, readMBps exactly when the read reached end of
\* stream with elapsed > 0 and bytes > 0; otherwise the metric is the zero value.
C9_SpeedPositiveOnlyIfCompleted ==
    /\ Positive(result.WriteMBps) <=> (WriteCompleted /\ writeDuration > 0 /\ bytesWritten > 0)
    /\ Positive(result.ReadMBps) <=> (readOutcome = "eof" /\ readElapsed > 0 /\ totalRead > 0)
    /\ ~Positive(result.WriteMBps) => result.WriteMBps = ZeroSpeed
    /\ ~Positive(result.ReadMBps) => result.ReadMBps = ZeroSpeed

\* a returned result with a measured write and a read cut short by an error
C9_Witness ==
    /\ bpc = "done" /\ Positive(result.WriteMBps)
    /\ readOutcome = "error" /\ totalRead > 0 /\ readElapsed > 0

\* C10: a failure of the create, of a write (a short write included), of the sync
\* or of the close ends runIOMeasure with the zero-valued result, and the sample
\* is never reopened for reading.
C10_WriteFailureGivesZero ==
    writeFailure # "none" =>
        /\ bpc = "done"
        /\ result = [WriteMBps |-> ZeroSpeed, ReadMBps |-> ZeroSpeed]
        /\ readOutcome = "none" /\ totalRead = 0

\* a short write after part of the sample was written
C10_Witness == bpc = "done" /\ writeFailure = "short" /\ bytesWritten > chunkSize


\* the sample file of runIntegrityCheck was created: no "create test file" entry
SampleCreated == \A k \in 1..Len(iresult.Errors) : iresult.Errors[k].kind # "create"

\* C11: on every return of runIOMeasure and of runIntegrityCheck taken after the
\* sample file was created, the file has been deleted, and no handle on it was
\* still open when it was deleted.
C11_SampleRemovedAfterHandlesClosed ==
    /\ (bpc = "done" /\ writeFailure # "create") => (openFiles = {} /\ ~fileExists)
    /\ (ipc = "done" /\ SampleCreated) => (handles = {} /\ ~sampleExists)

\* runIntegrityCheck returned at a mismatch, with the read handle deferred-closed
C11_Witness ==
    /\ ipc = "done" /\ iresult.Errors # <<>> /\ iresult.Errors[1].kind = "mismatch"
    /\ handles = {} /\ ~sampleExists

\* the kinds of error entry that come from a failed I/O call
IOErrorKinds == {"create", "write", "short", "sync", "close", "reopen", "read"}

\* no I/O call of the run failed
NoIOError == \A k \in 1..Len(iresult.Errors) : iresult.Errors[k].kind \notin IOErrorKinds

\* C12: a run of runIntegrityCheck on a medium that returns exactly what was
\* written, with no failing I/O call, for sizes that are or are not a multiple of
\* the chunk size and reads returning pieces of any size, ends with Success()
\* true and BytesVerified = BytesWritten = size.
C12_RoundTripSucceeds ==
    (ipc = "done" /\ corruptAt = -1 /\ NoIOError) =>
        /\ Success(iresult)
        /\ iresult.BytesWritten = testSize
        /\ iresult.BytesVerified = testSize

\* a size that is no multiple of the chunk size, read back in uneven pieces
C12_Witness ==
    /\ ipc = "done" /\ corruptAt = -1 /\ Success(iresult)
    /\ testSize = integrityChunkSize + 300 /\ shortReads = MaxShortReads
    /\ iresult.BytesVerified = testSize

\* C13: when one byte of the sample, at offset corruptAt, is read back different
\* from what was written and no I/O call fails, runIntegrityCheck ends with
\* Success() false and its error entry is a data mismatch naming an offset that
\* is at most corruptAt.
C13_CorruptionReportedAtOrBefore ==
    (ipc = "done" /\ corruptAt # -1 /\ NoIOError) =>
        /\ ~Success(iresult)
        /\ \A k \in 1..Len(iresult.Errors) :
             /\ iresult.Errors[k].kind = "mismatch"
             /\ iresult.Errors[k].offset <= corruptAt

\* the altered byte lies inside a piece that starts after offset 0 and before it
C13_Witness ==
    /\ ipc = "done" /\ corruptAt # -1 /\ iresult.Errors # <<>>
    /\ iresult.Errors[1].kind = "mismatch"
    /\ 0 < iresult.Errors[1].offset /\ iresult.Errors[1].offset < corruptAt

\* C14: at the first piece that differs from the pattern the verifier records one
\* error naming the offset at which that piece starts and compares no further
\* data; in every state of every run, whatever mismatches and I/O errors occur,
\* the errors list has at most one entry.
C14_OneErrorThenStop ==
    /\ Len(iresult.Errors) <= 1
    /\ lateCompares = 0
    /\ \A k \in 1..Len(iresult.Errors) :
         iresult.Errors[k].kind = "mismatch" =>
             /\ ipc = "done"
             /\ iresult.Errors[k].offset = pieceStart
             /\ pieceStart <= corruptAt /\ corruptAt < readPos
             /\ bytesVerified = readPos

\* a mismatch in a piece that is not the first nor the last of the file: one
\* entry, and the rest of the file is never read
C14_Witness ==
    /\ ipc = "done" /\ Len(iresult.Errors) = 1
    /\ iresult.Errors[1].kind = "mismatch" /\ pieceStart > 0
    /\ readPos < writePos

\* the kinds of error entry of the write phase
WritePhaseKinds == {"create", "write", "short", "sync", "close"}

\* C15: an error entry ends the run; a run that ends with no entry went through
\* both phases to the end of the file; the returned BytesWritten is the number
\* of bytes the writes put into the file, BytesVerified the number read back,
\* and after a failure of the write phase (or of the reopen) BytesVerified = 0
\* and nothing was read.
C15_IOErrorHaltsAndKeepsCounts ==
    /\ iresult.Errors # <<>> => ipc = "done"
    /\ ipc = "done" =>
         /\ iresult.BytesWritten = writePos
         /\ iresult.BytesVerified = readPos
         /\ Success(iresult) => (writePos = testSize /\ readPos = testSize)
         /\ \A k \in 1..Len(iresult.Errors) :
              iresult.Errors[k].kind \in WritePhaseKinds \cup {"reopen"} =>
                  /\ iresult.BytesVerified = 0 /\ readPos = 0
                  /\ verifyBar = NoBar

\* a write error after part of the sample was written
C15_Witness ==
    /\ ipc = "done" /\ iresult.Errors # <<>> /\ iresult.Errors[1].kind = "write"
    /\ 0 < iresult.BytesWritten /\ iresult.BytesWritten < testSize
    /\ iresult.BytesVerified = 0

\* C16: a verify command whose --size is zero or negative ends with exit status
\* 1 without validating any device, resolving any mount point or writing any
\* file, whatever devices it names.
C16_NonPositiveSizeRejectedFirst ==
    sizeMB <= 0 =>
        /\ vpc \in {"off", "size", "done"}
        /\ vpc = "done" => vexit = "exit1"
        /\ validated = {} /\ resolved = {} /\ checkedFiles = {}

\* --size 0 with two devices named: rejected
C16_Witness ==
    /\ vpc = "done" /\ sizeMB = 0 /\ vexit = "exit1" /\ Len(devices) = 2
    /\ validated = {}

\* C17: a progress bar with total > 0 keeps 0 <= current <= total after any calls
\* of Add and Set, whatever integers they are given.
C17_CurrentWithinTotal ==
    theBar.total > 0 => (0 <= theBar.current /\ theBar.current <= theBar.total)

\* the last call was made on a bar that was already completed
CalledWhenCompleted == barCalls > 0 /\ barPrev.completed

\* C18: Finish on a bar that is not completed makes it completed, with current =
\* total when total > 0, and leaves label and total alone; any call on a
\* completed bar (Add, Set, UpdateTotal, Finish, Stop) leaves every field as it
\* was and writes nothing.
C18_FinishTerminalThenNoOps ==
    /\ (barLast.op = "Finish" /\ ~barPrev.completed) =>
           /\ theBar.completed
           /\ theBar.label = barPrev.label /\ theBar.total = barPrev.total
           /\ theBar.current = IF theBar.total > 0 THEN theBar.total ELSE barPrev.current
    /\ (barLast.op = "Stop" /\ ~barPrev.completed) => theBar.completed
    /\ CalledWhenCompleted => (theBar = barPrev /\ barWrote = "none")

\* a bar stopped short of its total, then asked to finish
C18_Witness ==
    /\ CalledWhenCompleted /\ barLast.op = "Finish"
    /\ theBar.total > 0 /\ theBar.current < theBar.total /\ theBar.current > 0

\* C19: UpdateTotal(t) on a bar that is not completed is ignored when t <= 0 and
\* otherwise sets total = t and lowers current to t when it was larger, so that
\* current <= total after the call.
C19_UpdateTotalKeepsCurrentWithin ==
    (barLast.op = "UpdateTotal" /\ ~barPrev.completed) =>
        IF barLast.arg <= 0
        THEN theBar = barPrev /\ barWrote = "none"
        ELSE /\ theBar.total = barLast.arg
             /\ theBar.current <= theBar.total
             /\ theBar.current = IF barPrev.current > barLast.arg THEN barLast.arg
                                 ELSE barPrev.current
             /\ theBar.label = barPrev.label /\ ~theBar.completed

\* the total is lowered below what was already counted
C19_Witness ==
    /\ barLast.op = "UpdateTotal" /\ ~barPrev.completed
    /\ barLast.arg > 0 /\ barPrev.current > barLast.arg /\ theBar.current = barLast.arg

\* C20: in a format request for one device the benchmark has run before the
\* erase starts, with --yes as without it (with --yes no prompt is shown); an
\* erase starts without a benchmark only when more than one device is named.
C20_BenchmarkRunsWithYes ==
    \A i \in 1..Len(eraseStarts) :
        eraseStarts[i] > 0 =>
            /\ Len(devices) = 1 => benchResult.ran
            /\ skipConfirm => (slowPrompt = Unasked /\ finalPrompt = Unasked)

\* upper-cased volume names visible on the disks other than the one being labelled
OtherLabels ==
    { ToUpper(volLabel[d]) :
        d \in { x \in present : volLabel[x] # <<>> /\ x # DriveOf(goos, labelDev) } }

\* the smallest i in 2..99 whose candidate labelArg+i is not in OtherLabels
SmallestFreeSuffix ==
    CHOOSE i \in 2..99 :
        /\ ToUpper(labelArg \o Itoa(i)) \notin OtherLabels
        /\ \A j \in 2..(i - 1) : ToUpper(labelArg \o Itoa(j)) \in OtherLabels

\* C21: the label getUniqueLabel returns is, compared without regard to case,
\* not a volume name visible on another disk: the label asked for when that is
\* free, otherwise the label followed by the smallest i in 2..99 that makes it
\* free.
C21_UniqueLabelIsFree ==
    lpc = "done" =>
        /\ ToUpper(labelOut) \notin OtherLabels
        /\ labelOut = IF ToUpper(labelArg) \notin OtherLabels THEN labelArg
                      ELSE labelArg \o Itoa(SmallestFreeSuffix)

\* on Windows alone (where getExistingLabels does collect the volume names)
C21_OnWindows == goos = "windows" => C21_UniqueLabelIsFree

\* the thresholds are positive and in ascending order
Ascending(t) ==
    0 < t.ExtremelySlow /\ t.ExtremelySlow <= t.VerySlow /\ t.VerySlow <= t.SlightlySlow

\* how bad a severity is: the larger, the better
Rank(s) ==
    CASE s = "extremelySlow" -> 1 [] s = "verySlow" -> 2 [] s = "slightlySlow" -> 3
      [] s = "ok" -> 4 [] OTHER -> 0

\* C22: benchmarkSeverity answers "unmeasurable" for every speed <= 0 whatever
\* the thresholds; for a speed > 0 and positive ascending thresholds it answers
\* the first of extremelySlow, verySlow, slightlySlow whose threshold is strictly
\* above the speed, "ok" when none is, and no higher speed gets a worse answer.
C22_SeverityByFirstThresholdAbove ==
    spc = "done" =>
        /\ sevSpeed <= 0 => sevOut = "unmeasurable"
        /\ (sevSpeed > 0 /\ Ascending(sevThresholds)) =>
             /\ sevOut = IF sevThresholds.ExtremelySlow > sevSpeed THEN "extremelySlow"
                         ELSE IF sevThresholds.VerySlow > sevSpeed THEN "verySlow"
                         ELSE IF sevThresholds.SlightlySlow > sevSpeed THEN "slightlySlow"
                         ELSE "ok"
             /\ \A faster \in Speeds :
                  faster >= sevSpeed =>
                      Rank(benchmarkSeverity(faster, sevThresholds)) >= Rank(sevOut)

\* a speed equal to the very-slow threshold is only slightly slow
C22_Witness ==
    /\ spc = "done" /\ Ascending(sevThresholds)
    /\ sevSpeed = sevThresholds.VerySlow /\ sevSpeed < sevThresholds.SlightlySlow
    /\ sevOut = "slightlySlow"

\* the speeds of the returned result are the measured ones
SpeedsAsMeasured ==
    /\ result.WriteMBps = Measure(bytesWritten, writeDuration)
    /\ result.ReadMBps = Measure(totalRead, readElapsed)

\* C23: the advisory for a phase is printed exactly when that phase finished in
\* under 400 ms with the sample at the 256 MiB ceiling, never in a run whose final
\* sample is below 256 MiB, and printing it leaves the returned speeds as measured.
C23_AdvisoryOnlyAtCeiling ==
    bpc = "done" =>
        /\ "write" \in advisories <=>
             (WriteCompleted /\ writeDuration < minSampleDuration
                 /\ currentSampleTarget = maxSampleSize)
        /\ "read" \in advisories <=>
             (readOutcome = "eof" /\ readElapsed < minSampleDuration
                 /\ currentSampleTarget = maxSampleSize)
        /\ currentSampleTarget < maxSampleSize => advisories = {}
        /\ readOutcome = "eof" => SpeedsAsMeasured

\* C23, amended: advisories are printed only by a run that read the sample back
\* to end of stream; then the write advisory is printed exactly when the write
\* phase took under 400 ms, which happens only with the sample at the 256 MiB
\* ceiling, and the read advisory exactly when the read phase took under 400 ms,
\* whatever the sample size; the returned speeds are the measured ones.
C23_AdvisoryAfterCompleteRun ==
    /\ readOutcome # "eof" => advisories = {}
    /\ (bpc = "done" /\ readOutcome = "eof") =>
         /\ "write" \in advisories <=> writeDuration < minSampleDuration
         /\ "write" \in advisories => currentSampleTarget = maxSampleSize
         /\ "read" \in advisories <=> readElapsed < minSampleDuration
         /\ SpeedsAsMeasured

\* a slow write of the first sample, read back quickly: the read advisory alone
C23_Witness ==
    /\ bpc = "done" /\ readOutcome = "eof" /\ advisories = {"read"}
    /\ currentSampleTarget = initialSampleSize /\ Positive(result.WriteMBps)

\* C24: a format run never classifies a benchmark with thresholds, loaded from a
\* profile, that break extremelySlow <= verySlow <= slightlySlow, and profile
\* save never stores a set of thresholds that breaks it.
C24_DisorderedThresholdsRejected ==
    /\ ppc = "formatted" => Ascending(thresholds)
    /\ (profSaved.written /\ profSaved.thresholdChanged) => Ascending(profSaved.stored.t)

\* the half of C24 that concerns profile save
C24_SaveStoresAscending ==
    (profSaved.written /\ profSaved.thresholdChanged) =>
        validateBenchmarkThresholds(profSaved.stored.t) = "nil"

\* no task of the request is between its start and its return
NoTaskRunning == \A i \in Tasks : tpc[i] \in {"idle", "done"}

\* C25: in a request for several devices, whenever the orchestrator is at a
\* prompt that reads standard input or is printing the collected outcomes, and
\* whenever outcomes have been printed, no device task is running: the outcomes
\* are printed and the eject prompt is issued only after every task returned.
C25_PromptsAndPrintOutsideTasks ==
    Len(devices) > 1 =>
        /\ mpc \in {"slowPrompt", "confirm", "print", "ejectPrompt"} => NoTaskRunning
        /\ mpc \in {"print", "ejectPrompt"} => (wg = 0 /\ \A i \in Tasks : tpc[i] = "done")
        /\ (printed # <<>> \/ ejected # {}) => \A i \in Tasks : tpc[i] = "done"

\* two tasks returned, their outcomes printed, the eject prompt showing
C25_Witness ==
    /\ Len(devices) = 2 /\ mpc = "ejectPrompt" /\ Len(printed) = 2
    /\ \A i \in Tasks : tpc[i] = "done"
    /\ \E i \in Tasks : eraseStarts[i] > 0

\* how many times the erase subprocess was started on the drive d in this request
ErasesOf(d) ==
    LET on == { i \in 1..Len(eraseStarts) : DriveOf(goos, devices[i]) = d }
        sum[S \in SUBSET on] ==
            IF S = {} THEN 0
            ELSE LET i == CHOOSE x \in S : TRUE IN eraseStarts[i] + sum[S \ {i}]
    IN  sum[on]

\* C26: within one format request the erase subprocess is started at most once
\* on each device, on the single-device and on the multi-device path; a device
\* whose erase failed is reported and not erased again.
C26_EraseAtMostOncePerDevice ==
    \A d \in DriveIds(goos) : ErasesOf(d) <= 1

\* each task of the request starts its erase at most once, failed or not
C26_EraseAtMostOncePerTask ==
    \A i \in 1..Len(eraseStarts) : eraseStarts[i] <= 1

\* the sample targets the write loop can reach: 32, 64, 128 and 256 MiB
TargetSteps == { initialSampleSize, 2 * initialSampleSize, 4 * initialSampleSize, maxSampleSize }

\* a step of the write loop that changes the target doubles it (up to the
\* ceiling), and is taken only when the target just became fully written in
\* under 400 ms and is below the ceiling
ExtendsOnlyWhenFastAndBelowCeiling ==
    (bpc = "write" /\ currentSampleTarget' # currentSampleTarget) =>
        /\ bytesWritten' = currentSampleTarget
        /\ elapsed' < minSampleDuration
        /\ currentSampleTarget < maxSampleSize
        /\ currentSampleTarget' = NextTarget(currentSampleTarget)
        /\ currentSampleTarget' = 2 * currentSampleTarget

\* C27: with no I/O error the write loop of runIOMeasure ends whatever the
\* timing of the writes; the target changes only by doubling, when it was fully
\* written in under 400 ms and is below 256 MiB, so it takes at most three
\* extensions (32, 64, 128, 256 MiB), and when the loop is left the bytes
\* written equal the final target.
C27_WriteLoopTerminates ==
    /\ [][ExtendsOnlyWhenFastAndBelowCeiling]_vars
    /\ []((bpc \notin {"off", "create"} /\ writeFailure # "create")
            => currentSampleTarget \in TargetSteps)
    /\ []((bpc \in {"sync", "close", "open", "read"} \/ (bpc = "done" /\ writeFailure = "none"))
            => bytesWritten = currentSampleTarget)
    /\ <>(writeFailure # "none" \/ bpc \in {"sync", "close", "open", "read", "done"})

\* three extensions: the loop was left with the whole 256 MiB written
C27_Witness ==
    /\ bpc = "sync" /\ writeFailure = "none"
    /\ currentSampleTarget = maxSampleSize /\ bytesWritten = maxSampleSize
    /\ elapsed < minSampleDuration

\* C28: when the erase subprocess exits with status zero, formatMac/formatWindows
\* returns nil, under every interleaving of the two output readers with the wait
\* on the subprocess, also when the wait closes the pipes while a reader is still
\* reading; an error of reading the output never makes a completed erase fail.
C28_ZeroExitMeansSuccess ==
    (epc = "done" /\ procState = "exit0") => eraseErr = "nil"

\* the same without any read error other than the one the closed pipe gives
C28_ZeroExitWithSoundPipes ==
    (epc = "done" /\ procState = "exit0" /\ eReadErr # "io") => eraseErr = "nil"

\* C29: a result of runIntegrityCheck with Success() true has BytesVerified =
\* BytesWritten = testSize, whatever the medium does; a read-back that ends
\* before all written bytes were returned is not a pass.
C29_SuccessMeansAllVerified ==
    (ipc = "done" /\ Success(iresult)) =>
        /\ iresult.BytesVerified = iresult.BytesWritten
        /\ iresult.BytesWritten = testSize

\* the same on a medium that reads the file back as long as it was written
C29_OnCompleteReadBack ==
    (ipc = "done" /\ Success(iresult) /\ eofAt = -1) =>
        /\ iresult.BytesVerified = iresult.BytesWritten
        /\ iresult.BytesWritten = testSize

\* a task that has not returned can take its next step: it never waits on the collector
NoTaskBlocked ==
    \A i \in Tasks :
        /\ tpc[i] = "label" => ENABLED TaskLabel(i)
        /\ tpc[i] = "ensure" => ENABLED TaskEnsure(i)
        /\ tpc[i] = "format" => ENABLED FormatStart(i)
        /\ tpc[i] = "erasing" => ENABLED FormatWait(i)

\* the outcomes task i has reported, received or not
SentBy(i) ==
    Cardinality({ k \in 1..Len(results) : results[k].idx = i })
        + Cardinality({ k \in 1..Len(printed) : printed[k].idx = i })

\* C30: in the multi-device path no task ever waits on the collector (it has
\* room for one outcome per device and each task reports at most once), the
\* collector is closed only when every task has returned, nothing is sent once
\* it is closed, and, when every task runs on and every erase subprocess exits,
\* a request whose tasks were started reaches the printing of the results.
C30_CollectorNeverBlocksNorClosesEarly ==
    /\ [](NoTaskBlocked /\ Len(results) <= Len(devices))
    /\ [](\A i \in Tasks : SentBy(i) <= 1 /\ (Len(devices) > 1 /\ tpc[i] = "done" => SentBy(i) = 1))
    /\ [](closed => \A i \in Tasks : tpc[i] = "done")
    /\ [][closed => (results' = results \/ results' = <<>>)]_vars
    /\ (mpc = "wait") ~> (mpc = "print")

\* C30 witness: every task of a request for MaxDevices devices has reported, one of them a failure, the collector
\* is full and closed, and the orchestrator is about to print
C30_Witness ==
    /\ mpc = "print" /\ closed /\ Len(devices) = MaxDevices
    /\ Len(results) = Len(devices)
    /\ \E k \in 1..Len(results) : results[k].status = "FAILED"
    /\ \E k \in 1..Len(results) : results[k].status = "SUCCESS"
====
